---- MODULE Spec2Model ----
(***************************************************************************)
(* Model of the sequential text-to-SQL orchestrator                        *)
(* (src/core/agent_manager_sequential.py): process_query, the lock around  *)
(* _orchestrate_workflow, the five pipeline stages, the K parallel         *)
(* generation workers and the helpers that parse the reasoning             *)
(* capability's free text.                                                 *)
(*                                                                         *)
(* Text is modelled as a sequence of tokens.  "x" is any run of characters *)
(* without a brace, "{" and "}" are the braces, and every other token is   *)
(* one "key": value member of a JSON object (PairKey / PairVal give its    *)
(* key and value).  Python's None is the value NoneText.                   *)
(***************************************************************************)
EXTENDS Integers, Sequences, FiniteSets, TLC

(***************************************************************************)
(* Bounds of the model.                                                    *)
(***************************************************************************)
NumCallers == 2
MaxQueries == 2

(***************************************************************************)
(* Program constants.                                                      *)
(***************************************************************************)
\* temperatures_to_try, in tenths: [0.0, 0.2, 0.4, 0.6, 0.8]
temperatures_to_try == <<0, 2, 4, 6, 8>>
K == Len(temperatures_to_try)
Workers == 1..K
\* settings.LLM_TEMPERATURE = 0.2, in tenths
LLM_TEMPERATURE == 2

Callers == 1..NumCallers
NoOwner == 0

(***************************************************************************)
(* Names of tables and columns.  A name is a sequence of tokens, "." being *)
(* the separator, so that str.split('.') and str.startswith can be         *)
(* computed: "public.items" is <<"public", ".", "item", "s">>, of which    *)
(* "public.item" is a prefix.                                              *)
(***************************************************************************)
\* settings.DB_SCHEMAS[0]
data_schema_name == "public"

\* "schema.table" and "table.column"
Fq(table) == <<data_schema_name, ".">> \o table
Col(table, column) == table \o <<".", column>>

t_item == <<"item">>
t_items == <<"item", "s">>
t_sales == <<"sales">>
t_stores == <<"stores">>
t_ghost == <<"ghost">>

\* str.split('.'): the parts between the separators
RECURSIVE Split(_)
Split(name) ==
  IF \A i \in 1..Len(name) : name[i] # "." THEN <<name>>
  ELSE LET d == CHOOSE i \in 1..Len(name) :
                  name[i] = "." /\ \A j \in 1..(i - 1) : name[j] # "."
       IN <<SubSeq(name, 1, d - 1)>> \o Split(SubSeq(name, d + 1, Len(name)))

\* str.startswith
StartsWith(name, prefix) ==
  Len(prefix) <= Len(name) /\ SubSeq(name, 1, Len(prefix)) = prefix

(***************************************************************************)
(* JSON values and texts.                                                  *)
(***************************************************************************)
JList(items) == [ty |-> "list", items |-> items]
JText(toks) == [ty |-> "str", items |-> toks]
JStr(s) == JText(<<s>>)
JNull == [ty |-> "null", items |-> <<>>]

NoneText == [none |-> TRUE, toks |-> <<>>]
Text(toks) == [none |-> FALSE, toks |-> toks]

\* the row of the record made at line 134, {"error": "Failed to parse ..."}
ParseFailure == "error: Failed to parse validator's JSON response."

PairTokens ==
  { "tables=[sales,stores]", "tables=[]", "tables=str",
    "columns=[sales.amount]", "columns=[sales.amount,items.price]",
    "columns=[]", "columns=str",
    "final_query=SQL1", "final_query=SQL2",
    "result=[row1,row2]", "result=[parse_error]", "result=null",
    "error=E1", "error=E2", "error=null" }

PairKey(t) ==
  CASE t \in {"tables=[sales,stores]", "tables=[]", "tables=str"} -> "tables"
    [] t \in {"columns=[sales.amount]", "columns=[sales.amount,items.price]",
               "columns=[]", "columns=str"} -> "columns"
    [] t \in {"final_query=SQL1", "final_query=SQL2"} -> "final_query"
    [] t \in {"result=[row1,row2]", "result=[parse_error]", "result=null"} -> "result"
    [] OTHER -> "error"

PairVal(t) ==
  CASE t = "tables=[sales,stores]" -> JList(<<Fq(t_sales), Fq(t_stores)>>)
    [] t = "columns=[sales.amount]" -> JList(<<Col(Fq(t_sales), "amount")>>)
    [] t = "columns=[sales.amount,items.price]" ->
         JList(<<Col(Fq(t_sales), "amount"), Col(Fq(t_items), "price")>>)
    [] t \in {"tables=[]", "columns=[]"} -> JList(<<>>)
    [] t \in {"tables=str", "columns=str"} -> JStr("all")
    [] t = "final_query=SQL1" -> JStr("SQL1")
    [] t = "final_query=SQL2" -> JStr("SQL2")
    [] t = "result=[row1,row2]" -> JList(<<"row1", "row2">>)
    [] t = "result=[parse_error]" -> JList(<<ParseFailure>>)
    [] t = "error=E1" -> JStr("E1")
    [] t = "error=E2" -> JStr("E2")
    [] OTHER -> JNull

\* dict.get(key, default) on a parsed object (its members in order; a later
\* member with the same key wins, as in json.loads).
RECURSIVE DictGet(_, _, _)
DictGet(d, key, default) ==
  IF d = <<>> THEN default
  ELSE IF d[Len(d)][1] = key THEN d[Len(d)][2]
       ELSE DictGet(SubSeq(d, 1, Len(d) - 1), key, default)

\* text.find('{'): the 1-based position of the first brace, 0 when there is none
RECURSIVE FindBraceFrom(_, _)
FindBraceFrom(toks, i) ==
  IF i > Len(toks) THEN 0
  ELSE IF toks[i] = "{" THEN i ELSE FindBraceFrom(toks, i + 1)

FindBrace(toks) == FindBraceFrom(toks, 1)

\* JSONDecoder.raw_decode on a text that starts with "{": the index of the
\* closing brace of the object that starts there, 0 when no object decodes.
RECURSIVE RawDecodeFrom(_, _)
RawDecodeFrom(toks, i) ==
  IF i > Len(toks) THEN 0
  ELSE IF toks[i] = "}" THEN i
  ELSE IF toks[i] \in PairTokens THEN RawDecodeFrom(toks, i + 1)
  ELSE 0

RawDecode(toks) ==
  IF toks = <<>> \/ toks[1] # "{" THEN 0 ELSE RawDecodeFrom(toks, 2)

EmptyObject == <<"{", "}">>

\* _extract_json_from_string: [exc, toks]; None has no find() -> AttributeError
_extract_json_from_string(text) ==
  IF text.none THEN [exc |-> "AttributeError", toks |-> <<>>]
  ELSE LET start_brace == FindBrace(text.toks) IN
       IF start_brace = 0 THEN [exc |-> "", toks |-> EmptyObject]
       ELSE LET potential_json == SubSeq(text.toks, start_brace, Len(text.toks))
                end_index == RawDecode(potential_json)
            IN IF end_index = 0
               THEN [exc |-> "", toks |-> EmptyObject]
               ELSE [exc |-> "", toks |-> SubSeq(potential_json, 1, end_index)]

\* json.loads: [exc, dict]; the dict is the sequence of <<key, value>> members
\* of the object.  A text that is not exactly one object raises JSONDecodeError.
json_loads(toks) ==
  IF RawDecode(toks) = Len(toks) /\ Len(toks) >= 2
  THEN [exc |-> "",
        dict |-> [i \in 1..(Len(toks) - 2) |-> <<PairKey(toks[i + 1]), PairVal(toks[i + 1])>>]]
  ELSE [exc |-> "JSONDecodeError", dict |-> <<>>]

\* json.dumps of a parsed object (line 172): the braces around one token per
\* member, in the order of the members
json_dumps(d) ==
  <<"{">> \o [i \in 1..Len(d) |->
               CHOOSE t \in PairTokens : PairKey(t) = d[i][1] /\ PairVal(t) = d[i][2]]
        \o <<"}">>

ParseJsonListLenient(last_message, key) ==
  LET ext == _extract_json_from_string(last_message) IN
  IF ext.exc # "" THEN [exc |-> "ValueError", val |-> <<>>]
  ELSE LET data == json_loads(ext.toks) IN
       IF data.exc # "" THEN [exc |-> "ValueError", val |-> <<>>]
       ELSE [exc |-> "", val |-> DictGet(data.dict, key, JList(<<>>)).items]

\* _parse_json_list: [exc, val].  Every failure inside the try block
\* (AttributeError for a None content, a missing key, a value that is not a
\* list, an empty list) leaves as ValueError.
_parse_json_list(last_message, key) ==
  LET ext == _extract_json_from_string(last_message) IN
  IF ext.exc # "" THEN [exc |-> "ValueError", val |-> <<>>]
  ELSE LET data == json_loads(ext.toks) IN
       IF data.exc # "" THEN [exc |-> "ValueError", val |-> <<>>]
       ELSE LET value == DictGet(data.dict, key, JList(<<>>)) IN
            IF value.ty # "list" \/ value.items = <<>>
            THEN [exc |-> "ValueError", val |-> <<>>]
            ELSE [exc |-> "", val |-> value.items]

(***************************************************************************)
(* Candidate post-processing (_generate_single_candidate, lines 197-209).  *)
(* A generated text is a sequence of tokens: " " is whitespace, "~~~sql"   *)
(* and "~~~" stand for the code-fence markers (three backquotes, with and  *)
(* without the sql tag), anything else is SQL text.                        *)
(***************************************************************************)
RECURSIVE LStrip(_)
LStrip(toks) ==
  IF toks # <<>> /\ toks[1] = " " THEN LStrip(Tail(toks)) ELSE toks

RECURSIVE RStrip(_)
RStrip(toks) ==
  IF toks # <<>> /\ toks[Len(toks)] = " "
  THEN RStrip(SubSeq(toks, 1, Len(toks) - 1)) ELSE toks

Strip(toks) == RStrip(LStrip(toks))

FencesKept(toks) == Strip(toks)

\* lines 197-209
CleanCandidate(toks) ==
  LET a == Strip(toks)
      b == IF a # <<>> /\ a[1] = "~~~sql" THEN Tail(a) ELSE a
      c == IF b # <<>> /\ b[Len(b)] = "~~~"
           THEN SubSeq(b, 1, Len(b) - 1) ELSE b
  IN Strip(c)

\* The reply of generate_reply: nothing (None), a str, a dict with a str
\* content, or an exception of the library.
GenReplies ==
  { [kind |-> "str",  toks |-> <<"~~~sql", " ", "SQL1", " ", "~~~">>],
    [kind |-> "dict", toks |-> <<" ", "SQL1">>],
    [kind |-> "str",  toks |-> <<" ">>],
    [kind |-> "dict", toks |-> <<>>],
    [kind |-> "str",  toks |-> <<"~~~sql", "~~~">>],
    [kind |-> "none", toks |-> <<>>],
    [kind |-> "raise", toks |-> <<>>] }

\* What _generate_single_candidate returns for a reply: [exc, sql]
CandidateOf(reply) ==
  CASE reply.kind = "raise" -> [exc |-> "LLMError", sql |-> <<>>]
    [] reply.kind = "none" -> [exc |-> "", sql |-> <<>>]
    [] OTHER -> [exc |-> "", sql |-> CleanCandidate(reply.toks)]

(***************************************************************************)
(* Deduplication (lines 279-292).                                          *)
(***************************************************************************)
\* str(value) of Python, as tokens
PyStr(v) ==
  CASE v.ty = "null" -> <<"None">>
    [] v.ty = "str" -> v.items
    [] OTHER -> <<"[">> \o v.items \o <<"]">>

ResponseKey(resp) ==
  <<DictGet(resp, "final_query", JNull), PyStr(DictGet(resp, "result", JNull))>>

RECURSIVE DedupFromForgetful(_, _, _)
DedupFromForgetful(responses, seen, unique_responses) ==
  IF responses = <<>> THEN unique_responses
  ELSE LET resp == Head(responses)
           key == ResponseKey(resp)
       IN IF key \notin seen
          THEN DedupFromForgetful(Tail(responses), {key}, Append(unique_responses, resp))
          ELSE DedupFromForgetful(Tail(responses), seen, unique_responses)

RECURSIVE DedupFrom(_, _, _)
DedupFrom(responses, seen, unique_responses) ==
  IF responses = <<>> THEN unique_responses
  ELSE LET resp == Head(responses)
           key == ResponseKey(resp)
       IN IF key \notin seen
          THEN DedupFrom(Tail(responses), seen \cup {key}, Append(unique_responses, resp))
          ELSE DedupFrom(Tail(responses), seen, unique_responses)

DedupNothing(responses) == responses

DedupFirstSeen(responses) ==
  DedupFrom(responses, {ResponseKey(responses[1])}, <<>>)

\* lines 279-292
deduplicate_responses(responses) == DedupFrom(responses, {}, <<>>)

\* lines 266-277: True at the first record whose key was seen before
RECURSIVE HasDuplicateFrom(_, _)
HasDuplicateFrom(responses, seen) ==
  IF responses = <<>> THEN FALSE
  ELSE LET key == ResponseKey(Head(responses))
       IN IF key \in seen THEN TRUE
          ELSE HasDuplicateFrom(Tail(responses), seen \cup {key})

has_duplicate_responses(responses) == HasDuplicateFrom(responses, {})

(***************************************************************************)
(* Final selection (lines 156-171).  The selector's summary is a sequence  *)
(* of characters.                                                          *)
(***************************************************************************)
Alphabet ==
  <<"A", "B", "C", "D", "E", "F", "G", "H", "I", "J", "K", "L", "M",
    "N", "O", "P", "Q", "R", "S", "T", "U", "V", "W", "X", "Y", "Z">>
Lower ==
  <<"a", "b", "c", "d", "e", "f", "g", "h", "i", "j", "k", "l", "m",
    "n", "o", "p", "q", "r", "s", "t", "u", "v", "w", "x", "y", "z">>

\* ord(ch) - 65 for an upper-case letter
LetterIndex(ch) == CHOOSE i \in 0..25 : Alphabet[i + 1] = ch

AsWritten(ch) == ch

\* str.upper() on one character
Upper(ch) ==
  IF \E i \in 1..26 : Lower[i] = ch
  THEN Alphabet[CHOOSE i \in 1..26 : Lower[i] = ch] ELSE ch

IsUpperLetter(ch) == \E i \in 1..26 : Alphabet[i] = ch

\* re.search(r'[A-Z]', summary.upper().strip()), defaulting to "A"
RECURSIVE FirstLetter(_)
FirstLetter(chars) ==
  IF chars = <<>> THEN "A"
  ELSE IF IsUpperLetter(Upper(Head(chars))) THEN Upper(Head(chars))
       ELSE FirstLetter(Tail(chars))

final_choice_letter(summary) == FirstLetter(Strip(summary))

UncheckedIndex(summary, n) == LetterIndex(final_choice_letter(summary))

\* lines 166-169
final_answer_index(summary, n) ==
  LET i == LetterIndex(final_choice_letter(summary)) IN
  IF i < 0 \/ i >= n THEN 0 ELSE i

FirstRecord(validated_results, summary) == validated_results[1]

\* line 171: validated_results[final_answer_index]
final_answer_obj(validated_results, summary) ==
  validated_results[final_answer_index(summary, Len(validated_results)) + 1]

(***************************************************************************)
(* The replies of the reasoning capability, per stage.                     *)
(***************************************************************************)
TableReplies ==
  { Text(<<"x", "{", "tables=[sales,stores]", "}", "x">>),
    Text(<<"{", "columns=[sales.amount]", "}">>),
    Text(<<"{", "tables=str", "}">>),
    Text(<<"{", "tables=[]", "}">>),
    Text(<<"x">>),
    NoneText }

ColumnReplies ==
  { Text(<<"x", "{", "columns=[sales.amount]", "}">>),
    Text(<<"{", "tables=[sales,stores]", "}">>),
    Text(<<"{", "columns=str", "}">>),
    Text(<<"{", "columns=[]", "}">>),
    Text(<<"{", "x", "}">>),
    NoneText }

ValidatorReplies ==
  { Text(<<"x", "{", "final_query=SQL1", "result=[row1,row2]", "error=null", "}", "x">>),
    Text(<<"{", "final_query=SQL2", "result=null", "error=E1", "}">>),
    Text(<<"x">>),
    NoneText }

SelectorReplies ==
  { Text(<<" ", "b", " ">>), Text(<<"D">>), Text(<<"1">>), NoneText }

(***************************************************************************)
(* State.                                                                  *)
(***************************************************************************)
VARIABLES
  pc,          \* per caller: where its process_query call stands
  lock,        \* self._lock: its holder, or NoOwner
  loc,         \* per caller: the locals of _orchestrate_workflow
  llm_config,  \* per caller: the temperature of SQLGenerator's llm_config
  fut,         \* per caller and worker: the generation task and its future
  ret,         \* per caller: what _orchestrate_workflow hands back
  outcome,     \* per caller: what its last process_query call gave it
  entered,     \* per caller: the stages entered by the running call
  calls,       \* per caller: the validator and selector calls issued
  nq,          \* process_query calls made so far
  helper,      \* a call of one helper function on its own: [fn, arg, res, done]
  _agent_manager,  \* the global of api/routes/agent_sequential.py (line 20)
  request      \* per request thread: where its get_agent_manager call stands

\* the state of the route module
route == <<_agent_manager, request>>

vars == <<pc, lock, loc, llm_config, fut, ret, outcome, entered, calls, nq, helper,
          route>>

\* no pool of generation threads; self._executor, the pool made by __init__
\* (line 32), which no method uses
NoExecutor == [created_in |-> "", max_workers |-> 0, shutdown |-> FALSE]
self_executor == [created_in |-> "__init__", max_workers |-> 1, shutdown |-> FALSE]

NoLocals ==
  [ executor |-> NoExecutor,
    full_conversation_history |-> <<>>,
    selected_tables |-> <<>>,
    selected_columns |-> <<>>,
    m_schema |-> <<>>,
    candidate_queries |-> <<>>,
    validated_results |-> <<>> ]

NoFuture == [st |-> "none", cfg |-> "none", temperature |-> -1, used |-> -1]

NoRet == [raised |-> "", set |-> FALSE, conversation |-> <<>>,
          final_answer |-> [kind |-> "none", text |-> <<>>, msg |-> ""]]

\* generator: generate_reply calls issued; produced: those that gave a
\* non-empty candidate
NoCalls == [validator |-> 0, selector |-> 0, generator |-> 0, produced |-> 0]

\* no helper function is being called on its own
NoHelper == [fn |-> "none", arg |-> <<>>, res |-> <<>>, done |-> FALSE]

\* the state of the manager after construction (lines 27-33), no call made
Idle ==
  /\ pc = [c \in Callers |-> "idle"]
  /\ lock = NoOwner
  /\ loc = [c \in Callers |-> NoLocals]
  /\ llm_config = [c \in Callers |-> -1]
  /\ fut = [c \in Callers |-> [w \in Workers |-> NoFuture]]
  /\ ret = [c \in Callers |-> NoRet]
  /\ outcome = [c \in Callers |-> "none"]
  /\ entered = [c \in Callers |-> <<>>]
  /\ calls = [c \in Callers |-> NoCalls]
  /\ nq = 0

\* the threads in which the requests' dependencies are resolved
NumRequests == 3
Requests == 1..NumRequests

\* _agent_manager = None (line 20); a manager is named after the request
\* thread that constructed it
NoManager == 0

\* at: the line the thread is about to run; new: the manager it has
\* constructed; got: the manager its call returned
NoRequest == [at |-> "idle", new |-> NoManager, got |-> NoManager]

\* the route module once imported (lines 19-21), no request received
NoRequests ==
  /\ _agent_manager = NoManager
  /\ request = [r \in Requests |-> NoRequest]

Init == Idle /\ helper = NoHelper /\ NoRequests

(***************************************************************************)
(* One process_query call in which what each generation task gets from the *)
(* reasoning capability is fixed beforehand: helper.arg.outputs says, per  *)
(* task, whether it gets a query of its own in a code fence or a code      *)
(* fence with nothing in it, or whether its call raises.                   *)
(***************************************************************************)
Scripted == helper.fn = "process_query"

SqlNames == <<"SQL1", "SQL2", "SQL3", "SQL4", "SQL5">>

GenOutputs == {"sql", "empty", "raise"}

\* the scripts of a call: at most one of its tasks meets an exception
Scripts ==
  { o \in [Workers -> GenOutputs] :
      \A v, w \in Workers : (o[v] = "raise" /\ o[w] = "raise") => v = w }

\* the replies generate_reply may give to task w
GenRepliesOf(w) ==
  IF Scripted
  THEN { CASE helper.arg.outputs[w] = "sql" ->
                [kind |-> "str", toks |-> <<"~~~sql", " ", SqlNames[w], " ", "~~~">>]
           [] helper.arg.outputs[w] = "empty" ->
                [kind |-> "str", toks |-> <<" ", "~~~sql", " ", "~~~">>]
           [] OTHER -> [kind |-> "raise", toks |-> <<>>] }
  ELSE GenReplies

\* the replies of SchemaAnalyst: in the scripted call it names two tables
TableRepliesNow ==
  IF Scripted
  THEN { Text(<<"x", "{", "tables=[sales,stores]", "}", "x">>) }
  ELSE TableReplies

\* the replies of ColumnSelector: in the scripted call it names a column
\* of a table named by SchemaAnalyst and one of a table not named by it
ColumnRepliesNow ==
  IF Scripted
  THEN { Text(<<"{", "columns=[sales.amount,items.price]", "}">>) }
  ELSE ColumnReplies

\* the replies of FinalSelector: in the scripted call the second letter or
\* a letter beyond every list
SelectorRepliesNow ==
  IF Scripted THEN { Text(<<" ", "b", " ">>), Text(<<"Z">>) } ELSE SelectorReplies

\* the replies of SQLValidator: in the scripted call an error record or an
\* empty text
ValidatorRepliesNow ==
  IF Scripted
  THEN { Text(<<"{", "final_query=SQL2", "result=null", "error=E1", "}">>),
         Text(<<>>) }
  ELSE ValidatorReplies

(***************************************************************************)
(* Trace entries and responses.                                            *)
(***************************************************************************)
Msg(role, name, content) == [role |-> role, name |-> name, content |-> content]

\* chat_res.chat_history of initiate_chat: the prompt and the agent's reply
ChatHistory(agent, prompt, reply) ==
  << Msg("user", "UserProxy", Text(<<prompt>>)), Msg("assistant", agent, reply) >>

\* msg.get("role") and msg.get("content")
HasRoleAndContent(m) == m.role # "" /\ ~m.content.none /\ m.content.toks # <<>>

WholeTrace(h) == h

\* lines 175-176: the turns that have a role and a content
RECURSIVE Conversation(_)
Conversation(h) ==
  IF h = <<>> THEN <<>>
  ELSE IF HasRoleAndContent(Head(h)) THEN <<Head(h)>> \o Conversation(Tail(h))
       ELSE Conversation(Tail(h))

\* lines 172-178: the final answer is json.dumps of the chosen record
SuccessResponse(h, rec) ==
  [raised |-> "", set |-> TRUE, conversation |-> Conversation(h),
   final_answer |-> [kind |-> "record", text |-> json_dumps(rec), msg |-> ""]]

ErrorResponseKeepingTrace(h, e) ==
  [raised |-> "", set |-> TRUE, conversation |-> Conversation(h),
   final_answer |-> [kind |-> "error", text |-> <<>>, msg |-> e]]

\* line 181
ErrorResponse(h, e) ==
  [raised |-> "", set |-> TRUE, conversation |-> <<>>,
   final_answer |-> [kind |-> "error", text |-> <<>>, msg |-> e]]

CatchesValueErrorOnly(e) == e = "ValueError"

\* except Exception (line 179): every exception a stage raises is caught
Catches(e) == TRUE

\* What _orchestrate_workflow hands back when exception e leaves a stage
Handle(h, e) ==
  IF Catches(e) THEN ErrorResponse(h, e)
  ELSE [NoRet EXCEPT !.raised = e]

\* the tables of the data store, as get_all_db_objects of tools/db_tools.py
\* lists them ("schema.name")
CatalogTables == <<Fq(t_item), Fq(t_items), Fq(t_sales), Fq(t_stores)>>

\* line 14: core.schema_tools is not a module of the repository, so the
\* import fails and the stubs of lines 17-21 are the functions in use
SchemaToolsImported == FALSE

\* get_all_db_objects as the orchestrator sees it (lines 13-21, used at 64)
get_all_db_objects ==
  IF SchemaToolsImported
  THEN [exc |-> "", val |-> CatalogTables]
  ELSE [exc |-> "NotImplementedError", val |-> <<>>]

(***************************************************************************)
(* The smart sampler of build_m_schema_string (orchestration_tools.py,     *)
(* lines 94-127).  A column of the store is its name and the number of its *)
(* distinct non-null values; a result row is one <<key, value>> pair.      *)
(***************************************************************************)
CARDINALITY_THRESHOLD == 25
SAMPLE_LIMIT == 5

Min(a, b) == IF a < b THEN a ELSE b

\* what a query meets at the store: it is answered ("rows"), it fails inside
\* the try of query_database ("error"), or releasing the connection in the
\* finally clause fails ("raise")
QueryOutcomes == {"rows", "error", "raise"}

\* query_database (db_tools.py, lines 381-409): [exc, rows]; a failure of
\* the query gives one row with the key "error"
query_database(rows, met) ==
  CASE met = "rows" -> [exc |-> "", rows |-> rows]
    [] met = "error" -> [exc |-> "", rows |-> << <<"error", "E">> >>]
    [] OTHER -> [exc |-> "PoolError", rows |-> <<>>]

\* the rows of SELECT COUNT(DISTINCT col) AS unique_count (line 99)
CountRows(col) == << <<"unique_count", col.distinct>> >>

\* the rows of SELECT DISTINCT col ... IS NOT NULL, with LIMIT limit when
\* limit > 0 (lines 107, 112): one row per value, keyed by the column's name
SampleRows(col, limit) ==
  [i \in 1..(IF limit > 0 THEN Min(col.distinct, limit) ELSE col.distinct)
     |-> <<col.name, i>>]

LowCardinalityBelow(unique_count) ==
  0 < unique_count /\ unique_count < CARDINALITY_THRESHOLD

\* line 104
LowCardinality(unique_count) ==
  0 < unique_count /\ unique_count <= CARDINALITY_THRESHOLD

\* lines 98-123, the body of the try: [exc, unique_count, label, limit,
\* sample_values] as they stand when the body ends or an exception leaves
\* it; limit is the LIMIT of the sample query: 0 when it has none, -1 when
\* no sample query was issued (then unique_count, never assigned, is -1)
sampler_body(col, count, sample) ==
  LET count_result == query_database(CountRows(col), count) IN
  IF count_result.exc # ""
  THEN [ exc |-> count_result.exc, unique_count |-> -1,
         label |-> "Sample Values", limit |-> -1, sample_values |-> <<>> ]
  ELSE
  LET unique_count ==
        IF count_result.rows # <<>> /\ count_result.rows[1][1] = "unique_count"
        THEN count_result.rows[1][2] ELSE 0
      low == LowCardinality(unique_count)
      limit == IF low THEN 0 ELSE SAMPLE_LIMIT
      samples_result == query_database(SampleRows(col, limit), sample)
  IN [ exc |-> samples_result.exc,
       unique_count |-> unique_count,
       label |-> IF low THEN "All Unique Values" ELSE "Sample Values",
       limit |-> limit,
       sample_values |->
         IF /\ samples_result.exc = ""
            /\ samples_result.rows # <<>>
            /\ samples_result.rows[1][1] # "error"
         THEN [i \in 1..Len(samples_result.rows) |-> samples_result.rows[i][2]]
         ELSE <<>> ]

UnguardedSampler(col, count, sample) == sampler_body(col, count, sample)

\* lines 95-127: the try with its handler, which logs the exception and
\* goes on with what the body had set
smart_sampler(col, count, sample) ==
  [sampler_body(col, count, sample) EXCEPT !.exc = ""]

(***************************************************************************)
(* build_m_schema_string (orchestration_tools.py, lines 13-149).           *)
(***************************************************************************)
\* the physical schema of the store, as get_complete_schema returns it: for
\* each table its columns in ordinal order, a column being its name, its
\* number of distinct non-null values and its foreign key (<<>> for none)
PhysColumn(name, distinct, fk) == [name |-> name, distinct |-> distinct, fk |-> fk]

PhysicalSchema ==
  (Fq(t_item) :> << PhysColumn("id", 30, <<>>), PhysColumn("category", 3, <<>>) >>)
  @@ (Fq(t_items) :> << PhysColumn("id", 30, <<Fq(t_item), "id">>),
                      PhysColumn("price", 30, <<>>) >>)
  @@ (Fq(t_sales) :> << PhysColumn("amount", 30, <<>>),
                      PhysColumn("store", 3, <<Fq(t_stores), "id">>) >>)
  @@ (Fq(t_stores) :> << PhysColumn("id", 3, <<>>) >>)

EmptySchema == [t \in {} |-> <<>>]

\* get_complete_schema (db_tools.py, lines 102-225): {} when reading the
\* catalog fails
get_complete_schema(env) ==
  IF env.catalog_ok THEN PhysicalSchema ELSE EmptySchema

\* no query of the sampler fails
NoFailure == [column |-> <<>>, count |-> "rows", sample |-> "rows"]

\* what the two queries about a column of a table meet at the store
OutcomesFor(env, table_name_only, col_name) ==
  IF env.failing.column = <<table_name_only, col_name>>
  THEN env.failing ELSE NoFailure

\* the iteration order of the set tables_to_build: the order of a Python
\* set of strings is not fixed; the model has two of them
SetOrder == <<Fq(t_ghost), Fq(t_item), Fq(t_items), Fq(t_sales), Fq(t_stores)>>

Reverse(q) == [i \in 1..Len(q) |-> q[Len(q) + 1 - i]]

IterationOrder(S, env) ==
  SelectSeq(IF env.reversed THEN Reverse(SetOrder) ELSE SetOrder,
            LAMBDA t : t \in S)

RECURSIVE Flatten(_)
Flatten(qs) == IF qs = <<>> THEN <<>> ELSE Head(qs) \o Flatten(Tail(qs))

\* lines 43-52: two-part names get the schema, three-part names stay, any
\* other name is skipped
RECURSIVE NormalizeColumns(_)
NormalizeColumns(columns) ==
  IF columns = <<>> THEN <<>>
  ELSE LET col == Head(columns)
           parts == Split(col)
       IN (CASE Len(parts) = 2 -> <<Fq(col)>>
             [] Len(parts) = 3 -> <<col>>
             [] OTHER -> <<>>)
          \o NormalizeColumns(Tail(columns))

\* lines 54-59
NormalizeTable(t) == IF \E i \in 1..Len(t) : t[i] = "." THEN t ELSE Fq(t)

\* line 78: c.startswith(fq_table_name)
SelectedForTable(c, fq_table_name) == StartsWith(c, fq_table_name)


Last(q) == q[Len(q)]

\* lines 75-134: the block of one table
TableBlock(fq_table_name, columns, full_physical_schema, env) ==
  LET table_name_only == Last(Split(fq_table_name))
      selected_cols_for_this_table ==
        { Last(Split(columns[i])) : i \in {j \in 1..Len(columns) :
                                            SelectedForTable(columns[j], fq_table_name)} }
      physical_cols == full_physical_schema[fq_table_name]
      emitted == SelectSeq(physical_cols,
                           LAMBDA col_info : <<col_info.name>> \in selected_cols_for_this_table)
  IN [ part |-> "table", table |-> fq_table_name,
       columns |->
         [i \in 1..Len(emitted) |->
            LET o == OutcomesFor(env, table_name_only, emitted[i].name)
                sampled == smart_sampler(emitted[i], o.count, o.sample)
            IN [ exc |-> sampled.exc, name |-> emitted[i].name,
                 label |-> sampled.label,
                 sample_values |-> sampled.sample_values ]] ]

\* an exception left the block of a table
BlockRaised(block) ==
  \E i \in 1..Len(block.columns) : block.columns[i].exc # ""

ForeignKeysOfCatalog(fq_table_name, full_physical_schema) ==
  << [ part |-> "fk", from |-> <<Fq(t_sales), "store">>,
       to |-> <<Fq(t_stores), "id">> ] >>

\* lines 140-143: the foreign keys of one table
ForeignKeys(fq_table_name, full_physical_schema) ==
  LET with_fk == SelectSeq(full_physical_schema[fq_table_name],
                           LAMBDA col_info : col_info.fk # <<>>)
  IN [i \in 1..Len(with_fk) |->
        [ part |-> "fk", from |-> <<fq_table_name, with_fk[i].name>>,
          to |-> with_fk[i].fk ]]

ErrorString(text) == << [part |-> "error", text |-> text] >>

IsErrorString(m_schema) == m_schema # <<>> /\ m_schema[1].part = "error"

\* the text returned, as the sequence of its parts.  Every exception of
\* lines 38-145 is caught at line 147 and gives the commented error text.
build_m_schema_string(tables, columns, env) ==
  IF tables = <<>> \/ columns = <<>>
  THEN ErrorString("/* M-Schema Error: No tables or columns were provided to the builder. */")
  ELSE IF ~env.configured
  THEN ErrorString("/* Error: A critical error occurred in the M-Schema builder. */")
  ELSE
  LET normalized == NormalizeColumns(columns)
      tables_to_build == {NormalizeTable(tables[i]) : i \in 1..Len(tables)}
      full_physical_schema == get_complete_schema(env)
      present == SelectSeq(IterationOrder(tables_to_build, env),
                           LAMBDA t : t \in DOMAIN full_physical_schema)
      blocks == [i \in 1..Len(present) |->
                   TableBlock(present[i], normalized, full_physical_schema, env)]
  IN IF \E i \in 1..Len(blocks) : BlockRaised(blocks[i])
     THEN ErrorString("/* Error: A critical error occurred in the M-Schema builder. */")
     ELSE << [part |-> "header", schema |-> data_schema_name] >>
          \o blocks
          \o << [part |-> "fk_header"] >>
          \o Flatten([i \in 1..Len(present) |->
                        ForeignKeys(present[i], full_physical_schema)])

\* a store that answers everything, and one whose catalog cannot be read
WorkingStore ==
  [configured |-> TRUE, catalog_ok |-> TRUE, failing |-> NoFailure, reversed |-> FALSE]
CatalogDown == [WorkingStore EXCEPT !.catalog_ok = FALSE]

\* the conditions of the store met by a query of the pipeline
PipelineEnvs == {WorkingStore, CatalogDown}

\* the schema text as the trace note of line 78 shows it
SchemaNote(m_schema) ==
  IF IsErrorString(m_schema) THEN m_schema[1].text
  ELSE IF Len(m_schema) > 2 THEN "M-Schema" ELSE "M-Schema without tables"

(***************************************************************************)
(* Steps of one process_query call.                                        *)
(***************************************************************************)
Step(c, newpc, newloc, newret, stages) ==
  /\ pc' = [pc EXCEPT ![c] = newpc]
  /\ loc' = [loc EXCEPT ![c] = newloc]
  /\ ret' = [ret EXCEPT ![c] = newret]
  /\ entered' = [entered EXCEPT ![c] = @ \o stages]

\* the stage finished: go on to the next one
Advance(c, newpc, newloc, stages) == Step(c, newpc, newloc, ret[c], stages)

\* exception e leaves the stage: lines 179-181 decide what is handed back
Raise(c, newloc, e) ==
  Step(c, "unlock", newloc, Handle(newloc.full_conversation_history, e), <<>>)

\* process_query is called (line 35-36)
Call(c) ==
  /\ pc[c] = "idle"
  /\ nq < MaxQueries
  /\ pc' = [pc EXCEPT ![c] = "lock"]
  /\ nq' = nq + 1
  /\ outcome' = [outcome EXCEPT ![c] = "none"]
  /\ UNCHANGED <<lock, loc, llm_config, fut, ret, entered, calls, helper, route>>

LockIgnored == TRUE

\* threading.Lock: acquire blocks while another thread holds the lock
LockAvailable == lock = NoOwner

\* with self._lock (line 37) and the start of _orchestrate_workflow (43-44)
Acquire(c) ==
  /\ pc[c] = "lock"
  /\ LockAvailable
  /\ lock' = c
  /\ pc' = [pc EXCEPT ![c] = "create"]
  /\ loc' = [loc EXCEPT ![c] = NoLocals]
  /\ UNCHANGED <<llm_config, fut, ret, outcome, entered, calls, nq, helper, route>>

ReuseAgents(c) ==
  /\ pc[c] = "create"
  /\ Advance(c, "table", loc[c], <<"TableStage">>)
  /\ UNCHANGED <<lock, llm_config, fut, outcome, calls, nq, helper, route>>

\* AgentFactorySequential.create_agents (lines 48-52): each agent gets its
\* own copy of llm_config, with the manager's temperature
CreateAgents(c) ==
  /\ pc[c] = "create"
  /\ \/ /\ Advance(c, "table", loc[c], <<"TableStage">>)
        /\ llm_config' = [llm_config EXCEPT ![c] = LLM_TEMPERATURE]
     \/ /\ Raise(c, loc[c], "LLMError")
        /\ UNCHANGED llm_config
  /\ UNCHANGED <<lock, fut, outcome, calls, nq, helper, route>>

\* lines 60-64: the parsed "tables" list, or on ValueError the catalog
ResolveTables(reply) ==
  LET parsed == _parse_json_list(reply, "tables") IN
  IF parsed.exc = "ValueError" THEN get_all_db_objects ELSE parsed

TableStageThenContext(c) ==
  /\ pc[c] = "table"
  /\ \/ Raise(c, loc[c], "LLMError")
     \/ \E reply \in TableRepliesNow :
          LET h == loc[c].full_conversation_history
                     \o ChatHistory("SchemaAnalyst", "task_1_prompt", reply)
              l1 == [loc[c] EXCEPT !.full_conversation_history = h]
              r == ResolveTables(reply)
          IN IF r.exc = ""
             THEN Advance(c, "context", [l1 EXCEPT !.selected_tables = r.val],
                          <<"ContextBuilding">>)
             ELSE Raise(c, l1, r.exc)
  /\ UNCHANGED <<lock, llm_config, fut, outcome, calls, nq, helper, route>>

\* STAGE 1, table selection (lines 54-65)
TableStage(c) ==
  /\ pc[c] = "table"
  /\ \/ Raise(c, loc[c], "LLMError")
     \/ \E reply \in TableRepliesNow :
          LET h == loc[c].full_conversation_history
                     \o ChatHistory("SchemaAnalyst", "task_1_prompt", reply)
              l1 == [loc[c] EXCEPT !.full_conversation_history = h]
              r == ResolveTables(reply)
          IN IF r.exc = ""
             THEN Advance(c, "column", [l1 EXCEPT !.selected_tables = r.val],
                          <<"ColumnStage">>)
             ELSE Raise(c, l1, r.exc)
  /\ UNCHANGED <<lock, llm_config, fut, outcome, calls, nq, helper, route>>

\* STAGE 1, column selection (lines 67-72)
ColumnStage(c) ==
  /\ pc[c] = "column"
  /\ \/ Raise(c, loc[c], "LLMError")
     \/ \E reply \in ColumnRepliesNow :
          LET h == loc[c].full_conversation_history
                     \o ChatHistory("ColumnSelector", "task_2_prompt", reply)
              l1 == [loc[c] EXCEPT !.full_conversation_history = h]
              r == _parse_json_list(reply, "columns")
          IN IF r.exc = ""
             THEN Advance(c, "context", [l1 EXCEPT !.selected_columns = r.val],
                          <<"ContextBuilding">>)
             ELSE Raise(c, l1, r.exc)
  /\ UNCHANGED <<lock, llm_config, fut, outcome, calls, nq, helper, route>>

\* STAGE 2 (lines 74-78)
ContextBuilding(c) ==
  /\ pc[c] = "context"
  /\ \E env \in IF Scripted THEN {WorkingStore} ELSE PipelineEnvs :
       LET m == build_m_schema_string(loc[c].selected_tables,
                                      loc[c].selected_columns, env)
           h == Append(loc[c].full_conversation_history,
                       Msg("system", "Orchestrator",
                           Text(<<"M-Schema constructed", SchemaNote(m)>>)))
       IN Advance(c, "generation",
                  [loc[c] EXCEPT !.m_schema = m, !.full_conversation_history = h],
                  <<"Generation">>)
  /\ UNCHANGED <<lock, llm_config, fut, outcome, calls, nq, helper, route>>

\* lines 94-99: one task per temperature is submitted to a pool of K threads
Submit(c) ==
  /\ pc[c] = "generation"
  /\ \A w \in Workers : fut[c][w].st = "none"
  /\ fut' = [fut EXCEPT ![c] = [w \in Workers |-> [NoFuture EXCEPT !.st = "submitted"]]]
  /\ loc' = [loc EXCEPT ![c].executor =
               [created_in |-> "_orchestrate_workflow",
                max_workers |-> Len(temperatures_to_try), shutdown |-> FALSE]]
  /\ UNCHANGED <<pc, lock, llm_config, ret, outcome, entered, calls, nq, helper, route>>

AliasedConfig == "shared"

\* agent.llm_config.copy() (line 188) is a dict of the task's own
CopiedConfig == "own"

\* lines 188-189 of task w: the temporary config gets the task's temperature
Configure(c, w) ==
  /\ fut[c][w].st = "submitted"
  /\ LET cfg == CopiedConfig
         t == temperatures_to_try[w]
     IN IF cfg = "own"
        THEN /\ fut' = [fut EXCEPT ![c][w] =
                          [@ EXCEPT !.st = "configured", !.cfg = cfg, !.temperature = t]]
             /\ UNCHANGED llm_config
        ELSE /\ fut' = [fut EXCEPT ![c][w] = [@ EXCEPT !.st = "configured", !.cfg = cfg]]
             /\ llm_config' = [llm_config EXCEPT ![c] = t]
  /\ UNCHANGED <<pc, lock, loc, ret, outcome, entered, calls, nq, helper, route>>

WorkerAppends(c, w) ==
  /\ fut[c][w].st = "configured"
  /\ fut' = [fut EXCEPT ![c][w] =
               [@ EXCEPT !.st = "done", !.used = fut[c][w].temperature]]
  /\ calls' = [calls EXCEPT ![c].generator = @ + 1]
  /\ loc' = [loc EXCEPT ![c].full_conversation_history =
               Append(@, Msg("assistant", "SQLGenerator", Text(<<SqlNames[w]>>)))]
  /\ UNCHANGED <<pc, lock, llm_config, ret, outcome, entered, nq, helper, route>>

RetryingReply(c, w) ==
  /\ fut[c][w].st = "configured"
  /\ fut' = [fut EXCEPT ![c][w] =
               [@ EXCEPT !.st = "done", !.used = fut[c][w].temperature]]
  /\ calls' = [calls EXCEPT ![c].generator = @ + 2]
  /\ UNCHANGED <<pc, lock, loc, llm_config, ret, outcome, entered, nq, helper, route>>

\* line 192 of task w: generate_reply is called with the temporary config
\* and the task runs to its end.  What the task returns (lines 197-209) is
\* seen by nobody before its future is read, so the model draws the reply
\* when the future is read.
GenerateReply(c, w) ==
  /\ fut[c][w].st = "configured"
  /\ LET f == fut[c][w] IN
     fut' = [fut EXCEPT ![c][w] =
               [f EXCEPT !.st = "done",
                         !.used = IF f.cfg = "own" THEN f.temperature ELSE llm_config[c]]]
  /\ calls' = [calls EXCEPT ![c].generator = @ + 1]
  /\ UNCHANGED <<pc, lock, loc, llm_config, ret, outcome, entered, nq, helper, route>>

CollectKeepingLast(c, w) ==
  /\ pc[c] = "generation"
  /\ fut[c][w].st = "done"
  /\ fut' = [fut EXCEPT ![c][w].st = "collected"]
  /\ \E reply \in GenRepliesOf(w) :
       LET r == CandidateOf(reply) IN
       IF r.exc = "" /\ r.sql # <<>>
       THEN /\ loc' = [loc EXCEPT ![c].candidate_queries = <<r.sql>>]
            /\ calls' = [calls EXCEPT ![c].produced = @ + 1]
       ELSE UNCHANGED <<loc, calls>>
  /\ UNCHANGED <<pc, lock, llm_config, ret, outcome, entered, nq, helper, route>>

CollectUnguarded(c, w) ==
  /\ pc[c] = "generation"
  /\ fut[c][w].st = "done"
  /\ fut' = [fut EXCEPT ![c][w].st = "collected"]
  /\ \E reply \in GenRepliesOf(w) :
       LET r == CandidateOf(reply) IN
       IF r.exc # ""
       THEN Raise(c, loc[c], r.exc) /\ UNCHANGED calls
       ELSE IF r.sql # <<>>
       THEN /\ loc' = [loc EXCEPT
                 ![c].candidate_queries = Append(@, r.sql),
                 ![c].full_conversation_history = @ \o
                   << Msg("system", "Orchestrator", Text(<<"Generated candidate with temp">>)),
                      Msg("user", "", Text(<<"generation_prompt">>)),
                      Msg("assistant", "SQLGenerator", Text(r.sql)) >>]
            /\ calls' = [calls EXCEPT ![c].produced = @ + 1]
            /\ UNCHANGED <<pc, ret, entered>>
       ELSE UNCHANGED <<loc, calls, pc, ret, entered>>
  /\ UNCHANGED <<lock, llm_config, outcome, nq, helper, route>>

\* lines 101-115: as_completed hands over a finished future and its result
\* (or its exception) is read
Collect(c, w) ==
  /\ pc[c] = "generation"
  /\ fut[c][w].st = "done"
  /\ fut' = [fut EXCEPT ![c][w].st = "collected"]
  /\ \E reply \in GenRepliesOf(w) :
       LET r == CandidateOf(reply) IN
       IF r.exc = "" /\ r.sql # <<>>
       THEN /\ loc' = [loc EXCEPT
                 ![c].candidate_queries = Append(@, r.sql),
                 ![c].full_conversation_history = @ \o
                   << Msg("system", "Orchestrator", Text(<<"Generated candidate with temp">>)),
                      Msg("user", "", Text(<<"generation_prompt">>)),
                      Msg("assistant", "SQLGenerator", Text(r.sql)) >>]
            /\ calls' = [calls EXCEPT ![c].produced = @ + 1]
       ELSE UNCHANGED <<loc, calls>>
  /\ UNCHANGED <<pc, lock, llm_config, ret, outcome, entered, nq, helper, route>>

SomeCollected(c) == \E w \in Workers : fut[c][w].st = "collected"

\* the as_completed loop ends, and the with block of line 94 is left, only
\* when every future has been handed over
AllCollected(c) == \A w \in Workers : fut[c][w].st = "collected"

GenerationDoneUnchecked(c) ==
  /\ pc[c] = "generation"
  /\ AllCollected(c)
  /\ Advance(c, "validation", loc[c], <<"Validation">>)
  /\ UNCHANGED <<lock, llm_config, fut, outcome, calls, nq, helper, route>>

\* the with block of line 94 is left, which shuts the pool down, and
\* lines 117-119
GenerationDone(c) ==
  /\ pc[c] = "generation"
  /\ AllCollected(c)
  /\ LET l == [loc[c] EXCEPT !.executor.shutdown = TRUE] IN
     IF l.candidate_queries = <<>>
     THEN Raise(c, l, "ValueError")
     ELSE Advance(c, "validation", l, <<"Validation">>)
  /\ UNCHANGED <<lock, llm_config, fut, outcome, calls, nq, helper, route>>

\* lines 130-134: the record made of the validator's summary
ValidationRecord(sql, last_response) ==
  LET ext == _extract_json_from_string(last_response)
      synthesized == << <<"final_query", JText(sql)>>,
                        <<"result", JList(<<ParseFailure>>)>> >>
  IN IF ext.exc \in {"JSONDecodeError", "TypeError"}
     THEN [exc |-> "", rec |-> synthesized]
     ELSE IF ext.exc # "" THEN [exc |-> ext.exc, rec |-> <<>>]
     ELSE LET d == json_loads(ext.toks) IN
          IF d.exc \in {"JSONDecodeError", "TypeError"}
          THEN [exc |-> "", rec |-> synthesized]
          ELSE [exc |-> d.exc, rec |-> d.dict]

LastFirst(candidate_queries, i) ==
  candidate_queries[Len(candidate_queries) + 1 - i]

\* line 126: the i-th turn of the loop has the i-th candidate
enumerate(candidate_queries, i) == candidate_queries[i]

\* lines 127-129: the chat with the validator about sql; its prompt quotes sql
ValidatorChat(sql, reply) ==
  << Msg("user", "UserProxy", Text(<<"task_4_prompt">> \o sql)),
     Msg("assistant", "SQLValidator", reply) >>

\* STAGE 4, one turn of the loop of lines 126-135
Validate(c) ==
  /\ pc[c] = "validation"
  /\ Len(loc[c].validated_results) < Len(loc[c].candidate_queries)
  /\ calls' = [calls EXCEPT ![c].validator = @ + 1]
  /\ LET sql == enumerate(loc[c].candidate_queries,
                          Len(loc[c].validated_results) + 1) IN
     \/ Raise(c, loc[c], "LLMError")
     \/ \E reply \in ValidatorRepliesNow :
          LET h == loc[c].full_conversation_history
                     \o ValidatorChat(sql, reply)
              l1 == [loc[c] EXCEPT !.full_conversation_history = h]
              v == ValidationRecord(sql, reply)
          IN IF v.exc = ""
             THEN Advance(c, "validation",
                          [l1 EXCEPT !.validated_results = Append(@, v.rec)], <<>>)
             ELSE Raise(c, l1, v.exc)
  /\ UNCHANGED <<lock, llm_config, fut, outcome, nq, helper, route>>

\* lines 136-141: the loop is over, duplicates are removed
Deduplicate(c) ==
  /\ pc[c] = "validation"
  /\ Len(loc[c].validated_results) = Len(loc[c].candidate_queries)
  /\ Advance(c, "selection",
             [loc[c] EXCEPT !.validated_results = deduplicate_responses(@)],
             <<"Deduplication", "Selection">>)
  /\ UNCHANGED <<lock, llm_config, fut, outcome, calls, nq, helper, route>>

\* STAGE 5 (lines 143-178)
Select(c) ==
  /\ pc[c] = "selection"
  /\ calls' = [calls EXCEPT ![c].selector = @ + 1]
  /\ \/ Raise(c, loc[c], "LLMError")
     \/ \E reply \in SelectorRepliesNow :
          LET h == loc[c].full_conversation_history
                     \o ChatHistory("FinalSelector", "selection_prompt", reply)
              l1 == [loc[c] EXCEPT !.full_conversation_history = h]
              n == Len(loc[c].validated_results)
          IN IF reply.none THEN Raise(c, l1, "AttributeError")
             ELSE IF n = 0 THEN Raise(c, l1, "IndexError")
             ELSE Step(c, "unlock", l1,
                       SuccessResponse(h, final_answer_obj(loc[c].validated_results,
                                                           reply.toks)),
                       <<"Done">>)
  /\ UNCHANGED <<lock, llm_config, fut, outcome, nq, helper, route>>

ReturnKeepingLock(c) ==
  /\ pc[c] = "unlock"
  /\ outcome' = [outcome EXCEPT ![c] = "answer"]
  /\ pc' = [pc EXCEPT ![c] = "idle"]
  /\ loc' = [loc EXCEPT ![c] = NoLocals]
  /\ llm_config' = [llm_config EXCEPT ![c] = -1]
  /\ fut' = [fut EXCEPT ![c] = [w \in Workers |-> NoFuture]]
  /\ ret' = [ret EXCEPT ![c] = NoRet]
  /\ entered' = [entered EXCEPT ![c] = <<>>]
  /\ calls' = [calls EXCEPT ![c] = NoCalls]
  /\ UNCHANGED <<lock, nq, helper, route>>

\* the with block of line 37 is left and process_query returns (38-40), or
\* the exception that left _orchestrate_workflow goes on to the caller
Release(c) ==
  /\ pc[c] = "unlock"
  /\ lock' = NoOwner
  /\ outcome' = [outcome EXCEPT ![c] =
                   IF ret[c].raised # "" THEN "exception"
                   ELSE IF ret[c].final_answer.kind = "error" THEN "error_answer"
                   ELSE "answer"]
  /\ pc' = [pc EXCEPT ![c] = "idle"]
  /\ loc' = [loc EXCEPT ![c] = NoLocals]
  /\ llm_config' = [llm_config EXCEPT ![c] = -1]
  /\ fut' = [fut EXCEPT ![c] = [w \in Workers |-> NoFuture]]
  /\ ret' = [ret EXCEPT ![c] = NoRet]
  /\ entered' = [entered EXCEPT ![c] = <<>>]
  /\ calls' = [calls EXCEPT ![c] = NoCalls]
  /\ UNCHANGED <<nq, helper, route>>

Next ==
  \/ \E c \in Callers : Call(c)
  \/ \E c \in Callers : Acquire(c)
  \/ \E c \in Callers : CreateAgents(c)
  \/ \E c \in Callers : TableStage(c)
  \/ \E c \in Callers : ColumnStage(c)
  \/ \E c \in Callers : ContextBuilding(c)
  \/ \E c \in Callers : Submit(c)
  \/ \E c \in Callers, w \in Workers : Configure(c, w)
  \/ \E c \in Callers, w \in Workers : GenerateReply(c, w)
  \/ \E c \in Callers, w \in Workers : Collect(c, w)
  \/ \E c \in Callers : GenerationDone(c)
  \/ \E c \in Callers : Validate(c)
  \/ \E c \in Callers : Deduplicate(c)
  \/ \E c \in Callers : Select(c)
  \/ \E c \in Callers : Release(c)

Spec == Init /\ [][Next]_vars

\* the steps of a call of c once it is made: the thread of the call and
\* the threads of its generation tasks
Running(c) ==
  \/ Acquire(c) \/ CreateAgents(c) \/ TableStage(c) \/ ColumnStage(c)
  \/ ContextBuilding(c) \/ Submit(c)
  \/ \E w \in Workers : Configure(c, w) \/ GenerateReply(c, w) \/ Collect(c, w)
  \/ GenerationDone(c) \/ Validate(c) \/ Deduplicate(c) \/ Select(c) \/ Release(c)

\* every thread that can run does run in the end, and every call to the
\* reasoning capability and to the data store returns: a step of a call that
\* stays possible is taken
LiveSpec == Spec /\ \A c \in Callers : WF_vars(Running(c))

\* the last call the manager serves, with the outputs of its tasks fixed
QueryInit ==
  /\ pc = [c \in Callers |-> "idle"]
  /\ lock = NoOwner
  /\ loc = [c \in Callers |-> NoLocals]
  /\ llm_config = [c \in Callers |-> -1]
  /\ fut = [c \in Callers |-> [w \in Workers |-> NoFuture]]
  /\ ret = [c \in Callers |-> NoRet]
  /\ outcome = [c \in Callers |-> "none"]
  /\ entered = [c \in Callers |-> <<>>]
  /\ calls = [c \in Callers |-> NoCalls]
  /\ nq = MaxQueries - 1
  /\ \E o \in Scripts :
       helper = [fn |-> "process_query", arg |-> [outputs |-> o],
                 res |-> <<>>, done |-> FALSE]
  /\ NoRequests

QuerySpec == QueryInit /\ [][Next]_vars

(***************************************************************************)
(* The helper functions called on their own, each on inputs drawn from a   *)
(* bounded set.                                                            *)
(***************************************************************************)
MaxResponses == 4
MaxSummaryLen == 3
MaxRecords == 4
MaxTextLen == 5
MaxDistinct == 27
ManyDistinct == 1000
MaxTables == 2
MaxColumns == 2

SeqsUpTo(S, n) == UNION {[1..m -> S] : m \in 0..n}

\* records as the validation loop appends them (line 135)
ResponseRecords ==
  { json_loads(<<"{", "final_query=SQL1", "result=[row1,row2]", "error=null", "}">>).dict,
    json_loads(<<"{", "final_query=SQL2", "result=[row1,row2]", "error=null", "}">>).dict,
    json_loads(<<"{", "final_query=SQL2", "result=null", "error=E1", "}">>).dict,
    json_loads(<<"{", "final_query=SQL2", "result=null", "error=E2", "}">>).dict,
    json_loads(<<"{", "final_query=SQL1", "result=null", "error=E1", "}">>).dict,
    json_loads(EmptyObject).dict }

SummaryChars == {" ", "b", "D", "1", "a", "t", "Z"}

ExtractTokens == {"x", "{", "}", "tables=[sales,stores]"}

\* table and column names as the two scope stages may give them
TableNames == {t_item, Fq(t_item), Fq(t_items), Fq(t_ghost)}
ColumnNames ==
  { Col(t_item, "id"), Col(Fq(t_item), "category"), Col(Fq(t_items), "id"),
    Col(Fq(t_items), "price"), <<"id">> }

\* the failures of the two queries about the column category of item
SamplingFailures ==
  { [column |-> <<t_item, "category">>, count |-> co, sample |-> so] :
      co \in QueryOutcomes, so \in QueryOutcomes } \ {[NoFailure EXCEPT !.column = <<t_item, "category">>]}

BuilderEnvs ==
  { WorkingStore, CatalogDown,
    [WorkingStore EXCEPT !.reversed = TRUE],
    [WorkingStore EXCEPT !.configured = FALSE] }
  \cup {[WorkingStore EXCEPT !.failing = f] : f \in SamplingFailures}

pipeline == <<pc, lock, loc, llm_config, fut, ret, outcome, entered, calls, nq>>

\* the operations on the data store of tools/db_tools.py, and what one of
\* them meets: the pool hands out no connection, the statement fails on
\* the connection, or all goes well
StoreOperations == {"query_database", "get_complete_schema", "get_all_db_objects"}
StoreOutcomes == {"ok", "connect_fails", "query_fails"}

NoConnection == 0

\* get_db_connection (db.py, lines 57-68): pool.getconn() gives a
\* connection or raises
get_db_connection(met) ==
  IF met = "connect_fails"
  THEN [exc |-> "PoolError", conn |-> NoConnection, events |-> <<>>]
  ELSE [exc |-> "", conn |-> 1, events |-> <<"getconn">>]

ReleaseOnSuccess(conn, exc) ==
  IF conn # NoConnection /\ exc = "" THEN <<"putconn">> ELSE <<>>

\* the finally clause (db_tools.py, lines 95-97, 221-223, 407-409) with
\* release_connection (db.py, lines 71-80); it runs whatever exception exc
\* left the try block
release_in_finally(conn, exc) ==
  IF conn # NoConnection THEN <<"putconn">> ELSE <<>>

\* one operation: conn = None, the try block, its handler, the finally
\* clause.  [exc, events, failed]: the exception that leaves the function,
\* the calls made on the pool, and whether the handler ran.
store_operation(op, met) ==
  LET got == get_db_connection(met)
      exc == IF got.exc # "" THEN got.exc
             ELSE IF met = "query_fails" THEN "DatabaseError" ELSE ""
  IN [ exc |-> "",
       events |-> got.events \o release_in_finally(got.conn, exc),
       failed |-> exc # "" ]

HelperCall(fn, arg) == [fn |-> fn, arg |-> arg, res |-> <<>>, done |-> FALSE]

HelperCalls ==
  {HelperCall("deduplicate_responses", r) : r \in SeqsUpTo(ResponseRecords, MaxResponses)}
  \cup {HelperCall("final_answer_index", [summary |-> t, n |-> n]) :
          t \in SeqsUpTo(SummaryChars, MaxSummaryLen), n \in 1..MaxRecords}
  \cup {HelperCall("_extract_json_from_string", Text(t)) :
          t \in SeqsUpTo(ExtractTokens, MaxTextLen)}
  \cup {HelperCall("_extract_json_from_string", NoneText)}
  \cup {HelperCall("smart_sampler",
                   [col |-> [name |-> nm, distinct |-> d], count |-> co, sample |-> so]) :
          nm \in {"category", "error"}, d \in 0..MaxDistinct \cup {ManyDistinct},
          co \in QueryOutcomes, so \in QueryOutcomes}
  \cup {HelperCall("build_m_schema_string", [tables |-> t, columns |-> cs, env |-> e]) :
          t \in SeqsUpTo(TableNames, MaxTables),
          cs \in SeqsUpTo(ColumnNames, MaxColumns), e \in BuilderEnvs}
  \cup {HelperCall("store_operation", [op |-> op, met |-> met]) :
          op \in StoreOperations, met \in StoreOutcomes}

HelperInit == Idle /\ helper \in HelperCalls /\ NoRequests

Pending(fn) == helper.fn = fn /\ ~helper.done
Returned(fn) == helper.fn = fn /\ helper.done
Return(res) ==
  /\ helper' = [helper EXCEPT !.res = res, !.done = TRUE]
  /\ UNCHANGED <<pipeline, route>>

CallDeduplicate ==
  /\ Pending("deduplicate_responses")
  /\ Return(deduplicate_responses(helper.arg))

\* lines 156-169: the letter, and the index after the bounds check
CallSelect ==
  /\ Pending("final_answer_index")
  /\ Return([letter |-> final_choice_letter(helper.arg.summary),
             index |-> final_answer_index(helper.arg.summary, helper.arg.n)])

CallExtract ==
  /\ Pending("_extract_json_from_string")
  /\ Return(_extract_json_from_string(helper.arg))

CallSampler ==
  /\ Pending("smart_sampler")
  /\ Return(smart_sampler(helper.arg.col, helper.arg.count, helper.arg.sample))

CallBuilder ==
  /\ Pending("build_m_schema_string")
  /\ Return(build_m_schema_string(helper.arg.tables, helper.arg.columns, helper.arg.env))

CallStore ==
  /\ Pending("store_operation")
  /\ Return(store_operation(helper.arg.op, helper.arg.met))

HelperNext ==
  \/ CallDeduplicate \/ CallSelect \/ CallExtract \/ CallSampler \/ CallBuilder
  \/ CallStore

HelperSpec == HelperInit /\ [][HelperNext]_vars

(***************************************************************************)
(* get_agent_manager (api/routes/agent_sequential.py, lines 24-40), the    *)
(* dependency of the route.  It is a plain function, so each request       *)
(* resolves it in a thread of its own, and the threads interleave between  *)
(* any two of its lines.                                                   *)
(***************************************************************************)
At(r, line) == request[r].at = line

\* a request arrives and its thread enters get_agent_manager
Depends(r) ==
  /\ At(r, "idle")
  /\ request' = [request EXCEPT ![r].at = "if"]
  /\ UNCHANGED <<pipeline, helper, _agent_manager>>

\* line 32: if _agent_manager is None
IfNone(r) ==
  /\ At(r, "if")
  /\ request' = [request EXCEPT
                   ![r].at = IF _agent_manager = NoManager THEN "construct"
                             ELSE "return"]
  /\ UNCHANGED <<pipeline, helper, _agent_manager>>

\* lines 33-38, the right-hand side: AgentManagerSequential(...) is made
Construct(r) ==
  /\ At(r, "construct")
  /\ request' = [request EXCEPT ![r].at = "assign", ![r].new = r]
  /\ UNCHANGED <<pipeline, helper, _agent_manager>>

\* line 34, the assignment to the global
AssignManager(r) ==
  /\ At(r, "assign")
  /\ _agent_manager' = request[r].new
  /\ request' = [request EXCEPT ![r].at = "return"]
  /\ UNCHANGED <<pipeline, helper>>

\* line 40: return _agent_manager
ReturnManager(r) ==
  /\ At(r, "return")
  /\ request' = [request EXCEPT ![r].at = "done", ![r].got = _agent_manager]
  /\ UNCHANGED <<pipeline, helper, _agent_manager>>

ManagerNext ==
  \E r \in Requests :
    \/ Depends(r)
    \/ IfNone(r)
    \/ Construct(r)
    \/ AssignManager(r)
    \/ ReturnManager(r)

ManagerSpec == Init /\ [][ManagerNext]_vars

(***************************************************************************)
(* Properties.                                                             *)
(***************************************************************************)
Range(q) == {q[i] : i \in 1..Len(q)}
IsPrefix(p, q) == Len(p) <= Len(q) /\ p = SubSeq(q, 1, Len(p))

StageOrder ==
  <<"TableStage", "ColumnStage", "ContextBuilding", "Generation",
    "Validation", "Deduplication", "Selection", "Done">>

\* the program counters at which a call is inside the with block of line 37
InPipeline ==
  {"create", "table", "column", "context", "generation", "validation",
   "selection", "unlock"}

\* the call of c has left its pipeline through the handler of line 179
Failed(c) == pc[c] = "unlock" /\ "Done" \notin Range(entered[c])

\* C1: for every failure raised inside any stage, process_query hands an
\* AgentResponse to its caller and never lets an exception through.
C1_AlwaysResponds ==
  \A c \in Callers :
    /\ outcome[c] # "exception"
    /\ pc[c] = "unlock" => ret[c].set /\ ret[c].raised = ""

\* C1 witness: a call in which a stage raised has returned an error answer
C1_Witness == \E c \in Callers : outcome[c] = "error_answer"

\* C2: when a stage fails, the response has an empty conversation (the
\* turns appended so far are discarded) and an error text as final answer,
\* never a serialized validation record.
C2_FailureResponse ==
  \A c \in Callers :
    Failed(c) =>
      /\ ret[c].set
      /\ ret[c].conversation = <<>>
      /\ ret[c].final_answer.kind = "error"

\* C2 witness: a stage failed after turns had been appended to the trace
C2_Witness ==
  \E c \in Callers :
    /\ Failed(c)
    /\ Len(loc[c].full_conversation_history) >= 5
    /\ ret[c].final_answer.msg = "ValueError"

PcStage ==
  [ table |-> "TableStage", column |-> "ColumnStage", context |-> "ContextBuilding",
    generation |-> "Generation", validation |-> "Validation", selection |-> "Selection" ]

C3_Order ==
  \A c \in Callers :
    /\ IsPrefix(entered[c], StageOrder)
    /\ pc[c] \in DOMAIN PcStage => entered[c] # <<>> /\ Last(entered[c]) = PcStage[pc[c]]
    /\ pc[c] \in {"idle", "lock", "create"} => entered[c] = <<>>

C3_NothingAfterTheEnd ==
  \A c \in Callers :
    pc[c] = "unlock" => entered'[c] = entered[c] \/ pc'[c] = "idle"

\* C3: the stages are entered in the order table stage, column stage,
\* ContextBuilding, Generation, Validation, Deduplication, Selection, Done,
\* each after the previous one, none twice, and none after a fatal failure.
C3_StageOrder == []C3_Order /\ [][C3_NothingAfterTheEnd]_vars

\* C3 witness: one run went through every stage, and another one failed in
\* the middle
C3_Witness ==
  \E c \in Callers :
    /\ pc[c] = "unlock"
    /\ entered[c] = StageOrder
    /\ \E d \in Callers : outcome[d] = "error_answer"

\* C4: when none of the K generation calls gives a non-empty text, the
\* candidate set is empty, the pipeline ends with an error text and no
\* validator call and no selector call is issued.
C4_NoCandidates ==
  \A c \in Callers :
    (AllCollected(c) /\ calls[c].produced = 0 /\ pc[c] # "generation") =>
      /\ loc[c].candidate_queries = <<>>
      /\ Failed(c)
      /\ ret[c].final_answer.kind = "error"
      /\ calls[c].validator = 0
      /\ calls[c].selector = 0

\* C4 witness: the K calls are over, none gave a candidate, the run ended
C4_Witness ==
  \E c \in Callers :
    AllCollected(c) /\ calls[c].produced = 0 /\ calls[c].generator = K /\ pc[c] = "unlock"

\* C5: the first validator call is issued only after all K generation calls
\* have completed and their results have been collected.
C5_GenerationBarrier ==
  \A c \in Callers :
    (calls[c].validator > 0 \/ pc[c] \in {"validation", "selection"}) =>
      \A w \in Workers : fut[c][w].st = "collected"

\* C5 witness: a validator call has been issued
C5_Witness == \E c \in Callers : calls[c].validator > 0 /\ calls[c].generator = K

\* C6: at most one process_query call is inside the pipeline at any time.
C6_MutualExclusion ==
  Cardinality({c \in Callers : pc[c] \in InPipeline}) <= 1

\* C6 witness: a call waits for the lock while another one runs the pipeline
C6_Witness ==
  \E c, d \in Callers : pc[c] = "lock" /\ pc[d] = "generation" /\ lock = d

\* C7: no generation call modifies the generator's shared configuration,
\* and each call uses the temperature it was submitted with.
C7_ConfigIsolation ==
  \A c \in Callers :
    /\ entered[c] # <<>> => llm_config[c] = LLM_TEMPERATURE
    /\ \A w \in Workers :
         fut[c][w].st \in {"done", "collected"} => fut[c][w].used = temperatures_to_try[w]

\* C7 witness: a call has used its temperature after the other tasks had
\* set theirs
C7_Witness ==
  \E c \in Callers : \E w \in Workers :
    /\ fut[c][w].st = "done"
    /\ fut[c][w].used = temperatures_to_try[w]
    /\ \A v \in Workers \ {w} : fut[c][v].st = "configured"

\* the reply holds an object, and its field is absent, not a list or empty
FieldUnusable(reply, key) ==
  /\ ~reply.none
  /\ LET v == DictGet(json_loads(_extract_json_from_string(reply).toks).dict,
                      key, JNull)
     IN v.ty # "list" \/ v.items = <<>>

\* the reply of the table stage and of the column stage, as the trace has them
TableReply(c) == loc[c].full_conversation_history[2].content
ColumnReply(c) == loc[c].full_conversation_history[4].content
TableStageOver(c) ==
  /\ pc[c] \in InPipeline \ {"create", "table"}
  /\ Len(loc[c].full_conversation_history) >= 2
ColumnStageOver(c) ==
  /\ pc[c] \in InPipeline \ {"create", "table", "column"}
  /\ Len(loc[c].full_conversation_history) >= 4

\* C8: when the table reply omits "tables", or gives no list or an empty
\* list, the resolved tables are the store's full catalog and the pipeline
\* goes on to the column stage.
C8_TableFallback ==
  \A c \in Callers :
    (TableStageOver(c) /\ FieldUnusable(TableReply(c), "tables")) =>
      /\ loc[c].selected_tables = CatalogTables
      /\ "ColumnStage" \in Range(entered[c])

\* C9: the column stage has no fallback: with no usable "columns" list the
\* stage fails, the pipeline ends with an error response, and context
\* building, generation, validation and selection are never entered.
C9_ColumnHardFailure ==
  \A c \in Callers :
    (ColumnStageOver(c) /\ FieldUnusable(ColumnReply(c), "columns")) =>
      /\ Failed(c)
      /\ ret[c].final_answer.kind = "error"
      /\ entered[c] = <<"TableStage", "ColumnStage">>
      /\ calls[c] = NoCalls
      /\ \A w \in Workers : fut[c][w].st = "none"

\* C9 witness: the column stage is over and its reply had an empty list
C9_Witness ==
  \E c \in Callers :
    /\ ColumnStageOver(c)
    /\ ColumnReply(c) = Text(<<"{", "columns=[]", "}">>)

\* the text holds no object that decodes
Unparsable(reply) ==
  /\ ~reply.none
  /\ \/ FindBrace(reply.toks) = 0
     \/ RawDecode(SubSeq(reply.toks, FindBrace(reply.toks), Len(reply.toks))) = 0

\* the validator's reply for candidate i, as the trace has it: the chats of
\* the two scope stages, the M-Schema note and three entries per candidate
\* come before the validation chats
ValidatorReply(c, i) ==
  loc[c].full_conversation_history[
    5 + 3 * Len(loc[c].candidate_queries) + 2 * i].content

HasParseError(rec) ==
  \/ DictGet(rec, "error", JNull) # JNull
  \/ \E i \in 1..Len(DictGet(rec, "result", JNull).items) :
       DictGet(rec, "result", JNull).items[i] = ParseFailure

\* C10: when the validator's response holds no parsable object, the record
\* appended for the candidate has the candidate's SQL as final_query and a
\* parse-failure error.
C10_UnparsableValidation ==
  \A c \in Callers :
    pc[c] = "validation" =>
      \A i \in 1..Len(loc[c].validated_results) :
        Unparsable(ValidatorReply(c, i)) =>
          /\ DictGet(loc[c].validated_results[i], "final_query", JNull)
               = JText(loc[c].candidate_queries[i])
          /\ HasParseError(loc[c].validated_results[i])

HasField(rec, key) == DictGet(rec, key, JNull) # JNull

\* C11: every record that has gone through deduplication and stands before
\* selection has a final_query and exactly one of result and error that is
\* not null.
C11_RecordInvariant ==
  \A c \in Callers :
    pc[c] = "selection" =>
      \A i \in 1..Len(loc[c].validated_results) :
        LET rec == loc[c].validated_results[i] IN
        /\ HasField(rec, "final_query")
        /\ HasField(rec, "result") # HasField(rec, "error")

\* the run of c has been through selection and holds its success response
Succeeded(c) == pc[c] = "unlock" /\ "Done" \in Range(entered[c])

\* the selector's reply, the last entry of the trace of a run that succeeded
SelectorReply(c) == Last(loc[c].full_conversation_history).content

\* the index chosen by the run of c among its deduplicated records
SelectedIndex(c) ==
  final_answer_index(SelectorReply(c).toks, Len(loc[c].validated_results))

\* C16: on a successful run the final answer is the serialized form of the
\* record at the selected index of the deduplicated list, which is a record
\* validation made of one of the candidates.
C16_FinalAnswer ==
  \A c \in Callers :
    Succeeded(c) =>
      LET recs == loc[c].validated_results
          chosen == recs[SelectedIndex(c) + 1]
      IN /\ recs = deduplicate_responses(recs)
         /\ ret[c].final_answer.kind = "record"
         /\ ret[c].final_answer.text = json_dumps(chosen)
         /\ json_loads(ret[c].final_answer.text).dict = chosen
         /\ \E i \in 1..Len(loc[c].candidate_queries) :
              ValidationRecord(loc[c].candidate_queries[i], ValidatorReply(c, i)).rec
                = chosen

\* C16 witness: a run succeeded and the selector chose the second of several
\* records
C16_Witness ==
  \E c \in Callers :
    /\ Succeeded(c)
    /\ Len(loc[c].validated_results) >= 2
    /\ SelectedIndex(c) = 1
    /\ ret[c].final_answer.text
         = <<"{", "final_query=SQL2", "result=null", "error=E1", "}">>

(***************************************************************************)
(* Properties of the helper functions (HelperSpec).                        *)
(***************************************************************************)
\* the i-th record is the first of the list with its signature
IsFirstOccurrence(responses, i) ==
  \A j \in 1..(i - 1) : ResponseKey(responses[j]) # ResponseKey(responses[i])

\* the elements of q at the positions of S, in the order of q
Restrict(q, S) ==
  [k \in 1..Cardinality(S) |->
     q[CHOOSE i \in S : Cardinality({j \in S : j <= i}) = k]]

\* C12: deduplicate_responses returns the first occurrence of each signature,
\* in the order of the input: later records with a signature already seen
\* are removed, nothing else is removed, added or reordered.
C12_FirstOccurrences ==
  Returned("deduplicate_responses") =>
    /\ helper.res = Restrict(helper.arg,
                             {i \in 1..Len(helper.arg) : IsFirstOccurrence(helper.arg, i)})
    /\ \A i, j \in 1..Len(helper.res) :
         i # j => ResponseKey(helper.res[i]) # ResponseKey(helper.res[j])
    /\ LET Q1R1 == json_loads(<<"{", "final_query=SQL1", "result=[row1,row2]",
                                "error=null", "}">>).dict
           Q2R2 == json_loads(<<"{", "final_query=SQL2", "result=null",
                                "error=E1", "}">>).dict
       IN helper.arg = <<Q1R1, Q1R1, Q2R2>> => helper.res = <<Q1R1, Q2R2>>

\* C12 witness: a list with a duplicate between two first occurrences has
\* been deduplicated
C12_Witness ==
  /\ Returned("deduplicate_responses")
  /\ Len(helper.arg) = 4
  /\ Len(helper.res) = 2
  /\ helper.arg[1] = helper.arg[3]
  /\ helper.arg[2] = helper.arg[4]

\* C13: two records with the same final_query, a null result and different
\* error messages have different signatures, and deduplication keeps both.
C13_ErrorInSignature ==
  Returned("deduplicate_responses") =>
    \A i, j \in 1..Len(helper.arg) :
      ( /\ HasField(helper.arg[i], "final_query")
        /\ DictGet(helper.arg[i], "final_query", JNull)
             = DictGet(helper.arg[j], "final_query", JNull)
        /\ ~HasField(helper.arg[i], "result")
        /\ ~HasField(helper.arg[j], "result")
        /\ DictGet(helper.arg[i], "error", JNull) # DictGet(helper.arg[j], "error", JNull) )
      => /\ ResponseKey(helper.arg[i]) # ResponseKey(helper.arg[j])
         /\ helper.arg[i] \in Range(helper.res)
         /\ helper.arg[j] \in Range(helper.res)

\* C14: for every selector response and every n >= 1 records, the selected
\* index is in 0..n-1, and it is 0 when the letter's index is outside.
C14_IndexInRange ==
  Returned("final_answer_index") =>
    /\ helper.res.index \in 0..(helper.arg.n - 1)
    /\ LetterIndex(helper.res.letter) \notin 0..(helper.arg.n - 1) => helper.res.index = 0
    /\ LetterIndex(helper.res.letter) \in 0..(helper.arg.n - 1)
         => helper.res.index = LetterIndex(helper.res.letter)

\* C14 witness: three candidates and the response "D"
C14_Witness ==
  /\ Returned("final_answer_index")
  /\ helper.arg = [summary |-> <<"D">>, n |-> 3]
  /\ helper.res = [letter |-> "D", index |-> 0]

\* the position in the alphabet of a letter of either case, 0 for any other
\* character
AlphabetPosition(ch) ==
  IF \E i \in 1..26 : ch \in {Alphabet[i], Lower[i]}
  THEN CHOOSE i \in 1..26 : ch \in {Alphabet[i], Lower[i]}
  ELSE 0

\* C15: the choice letter is the first letter of the response, in upper
\* case, and "A" when the response has no letter; its index is its distance
\* from "A".
C15_ChoiceLetter ==
  Returned("final_answer_index") =>
    LET chars == helper.arg.summary
        letters == {i \in 1..Len(chars) : AlphabetPosition(chars[i]) > 0}
    IN /\ letters = {} => helper.res.letter = "A"
       /\ letters # {} =>
            LET first == CHOOSE i \in letters : \A j \in letters : i <= j
            IN helper.res.letter = Alphabet[AlphabetPosition(chars[first])]
       /\ Alphabet[LetterIndex(helper.res.letter) + 1] = helper.res.letter

\* C15 witness: a lower-case letter after a space and a digit is the choice
C15_Witness ==
  /\ Returned("final_answer_index")
  /\ helper.arg.summary = <<" ", "1", "b">>
  /\ helper.arg.n = 2
  /\ helper.res = [letter |-> "B", index |-> 1]

\* toks is one object: an opening brace, members, a closing brace
IsObject(toks) == Len(toks) >= 2 /\ RawDecode(toks) = Len(toks)

\* the places <<i, j>> of the objects in a text
ObjectsIn(toks) ==
  {p \in (1..Len(toks)) \X (1..Len(toks)) :
     p[1] < p[2] /\ IsObject(SubSeq(toks, p[1], p[2]))}

\* C17: from a text that holds an object between noise, with or without
\* braces in the noise, extraction returns the first object exactly; from a
\* text without an opening brace it returns "{}".
C17_ExtractsObject ==
  (Returned("_extract_json_from_string") /\ ~helper.arg.none) =>
    LET toks == helper.arg.toks IN
    /\ ObjectsIn(toks) # {} =>
         LET p == CHOOSE p \in ObjectsIn(toks) : \A q \in ObjectsIn(toks) : p[1] <= q[1]
         IN helper.res.toks = SubSeq(toks, p[1], p[2])
    /\ FindBrace(toks) = 0 => helper.res.toks = EmptyObject

\* C18: extraction never raises, whatever it is given, a missing text
\* included, and what it returns parses as an object.
C18_NeverRaises ==
  Returned("_extract_json_from_string") =>
    /\ helper.res.exc = ""
    /\ json_loads(helper.res.toks).exc = ""

C20_SampleSize ==
  ( /\ Returned("smart_sampler")
    /\ helper.arg.count = "rows"
    /\ helper.arg.sample = "rows" ) =>
    LET c == helper.arg.col.distinct IN
    Len(helper.res.sample_values) =
      IF helper.res.label = "All Unique Values" THEN c ELSE Min(c, SAMPLE_LIMIT)

\* C25: a call starts from the same state whatever was processed before
\* it: when its agents are about to be created the trace and the candidate
\* list are empty and nothing of an earlier call is left, and when the
\* table stage starts the agents carry the manager's own configuration.
\* Every later step of the call reads only this state and the replies.
C25_FreshStart ==
  \A c \in Callers :
    /\ pc[c] \in {"create", "table"} =>
         /\ loc[c] = NoLocals
         /\ fut[c] = [w \in Workers |-> NoFuture]
         /\ ret[c] = NoRet
         /\ calls[c] = NoCalls
    /\ pc[c] = "create" => entered[c] = <<>>
    /\ pc[c] = "table" =>
         entered[c] = <<"TableStage">> /\ llm_config[c] = LLM_TEMPERATURE

\* C25 witness: the last call the manager serves reaches its table stage
\* after another call has ended with an answer
C25_Witness ==
  \E c \in Callers, d \in Callers :
    /\ c # d
    /\ pc[c] = "table"
    /\ nq = MaxQueries
    /\ outcome[d] \in {"answer", "error_answer"}

\* C27: a call issues one generation call per task, task w with the w-th
\* value of temperatures_to_try, whose K values differ from each other; a
\* call that has left the generation stage for validation has issued
\* exactly K of them and has at most K candidates.
C27_KGenerationCalls ==
  /\ \A v, w \in Workers : v # w => temperatures_to_try[v] # temperatures_to_try[w]
  /\ \A c \in Callers :
       /\ calls[c].generator =
            Cardinality({w \in Workers : fut[c][w].st \in {"done", "collected"}})
       /\ \A w \in Workers :
            fut[c][w].st \in {"configured", "done", "collected"} =>
              fut[c][w].temperature = temperatures_to_try[w]
       /\ Len(loc[c].candidate_queries) <= calls[c].generator
       /\ pc[c] \in {"validation", "selection"} =>
            /\ calls[c].generator = K
            /\ Len(loc[c].candidate_queries) <= K

\* C27 witness: every one of the K calls gave a candidate
C27_Witness ==
  \E c \in Callers :
    /\ pc[c] = "validation"
    /\ calls[c].generator = K
    /\ Len(loc[c].candidate_queries) = K
    /\ \A w \in Workers : fut[c][w].used = temperatures_to_try[w]

\* the trace of caller c grows in the step
TraceGrows(c) ==
  Len(loc'[c].full_conversation_history) > Len(loc[c].full_conversation_history)

\* the step takes caller c from one stage into the next
EntersStage(c) == Len(entered'[c]) > Len(entered[c])

\* the step is the deduplication of caller c
DedupStep(c) == pc[c] = "validation" /\ EntersStage(c)

\* C29 (as stated): every transition of the pipeline appends to the trace:
\* the steps that do the table stage, the column stage, the context
\* building, the deduplication or the selection and move on to the next
\* stage make the trace longer.
C29_EveryTransitionAppends ==
  [][\A c \in Callers :
       (pc[c] \in {"table", "column", "context", "validation", "selection"}
          /\ EntersStage(c)) => TraceGrows(c)]_vars

\* what one step does to the trace of caller c
TraceStep(c) ==
  LET h == loc[c].full_conversation_history
      hn == loc'[c].full_conversation_history
  IN /\ pc'[c] # "idle" => IsPrefix(h, hn)
     /\ (pc[c] \in {"table", "column", "context", "selection"} /\ EntersStage(c))
          => TraceGrows(c)
     /\ Len(loc'[c].candidate_queries) > Len(loc[c].candidate_queries)
          => Len(hn) = Len(h) + 3
     /\ (pc[c] = "validation" /\ pc'[c] = "validation"
           /\ Len(loc'[c].validated_results) > Len(loc[c].validated_results))
          => Len(hn) = Len(h) + 2
     /\ DedupStep(c) => hn = h
     /\ (pc[c] = "generation" /\ EntersStage(c)) => hn = h
     /\ (pc[c] = "selection" /\ EntersStage(c)) =>
          ret'[c].conversation =
            SelectSeq(hn, LAMBDA m : /\ m.role # ""
                                     /\ ~m.content.none
                                     /\ m.content.toks # <<>>)

\* C29 (amended): the trace of a call is append-only; the table stage, the
\* column stage, the context building, every candidate of the generation,
\* every validator call and the selection append to it, the deduplication
\* and the end of the generation stage append nothing; a run that succeeds
\* returns the trace, in its order, restricted to the turns that have a
\* role and a content.
C29_AppendOnlyTrace == [][\A c \in Callers : TraceStep(c)]_vars

\* C29 witness: a run succeeded with five candidates; its conversation is
\* shorter than its trace, which holds a validator turn with an empty text
C29_Witness ==
  \E c \in Callers :
    /\ Succeeded(c)
    /\ Len(loc[c].candidate_queries) = K
    /\ Len(ret[c].conversation) < Len(loc[c].full_conversation_history)
    /\ Len(ret[c].conversation) > 3 * K

\* the step makes a pool of threads for the call of c
PoolCreated(c) ==
  loc[c].executor = NoExecutor /\ loc'[c].executor # NoExecutor

\* C32: the generation tasks of a call run on a pool of K threads, and the
\* pool is the one earlier calls used: once a call has been answered, for
\* which a pool was at work, no later call makes a pool of its own.
C32_PoolReused ==
  /\ [](\A c \in Callers :
          (\E w \in Workers : fut[c][w].st # "none") =>
            loc[c].executor.max_workers = K)
  /\ [][\A c \in Callers :
          (\E d \in Callers \ {c} : outcome[d] = "answer") => ~PoolCreated(c)]_vars

\* C34: every call that has been made returns a response to its caller in
\* the end, a call waiting for the lock included, and the lock is free
\* again whenever no call is inside the pipeline.
C34_EveryCallReturns ==
  /\ \A c \in Callers :
       (pc[c] # "idle") ~> (pc[c] = "idle" /\ outcome[c] # "none")
  /\ []((\A c \in Callers : pc[c] \notin InPipeline) => lock = NoOwner)

\* C34 witness: a call got its response after having waited for the lock
\* while the other call, which then failed, held it
C34_Witness ==
  \E c, d \in Callers :
    /\ c # d
    /\ outcome[d] = "error_answer"
    /\ outcome[c] \in {"answer", "error_answer"}
    /\ nq = MaxQueries
    /\ lock = NoOwner

\* C37: the records handed to the selection are at least one and at most
\* K, and the first of them is the first record the validation made, so
\* that index 0 names a record.
C37_SelectionHasRecords ==
  /\ [](\A c \in Callers :
          pc[c] = "selection" => Len(loc[c].validated_results) \in 1..K)
  /\ [][\A c \in Callers :
          DedupStep(c) =>
            /\ loc[c].validated_results # <<>>
            /\ loc'[c].validated_results # <<>>
            /\ loc'[c].validated_results[1] = loc[c].validated_results[1]]_vars

\* C37 witness: five records were made, duplicates among them were removed
\* and the selection has begun
C37_Witness ==
  \E c \in Callers :
    /\ pc[c] = "selection"
    /\ calls[c].validator = K
    /\ Len(loc[c].validated_results) \in 2..(K - 1)

\* C38: what deduplicate_responses returns has no two records with the same
\* signature (has_duplicate_responses says False of it), and deduplicating
\* it once more returns it unchanged.
C38_DeduplicateIdempotent ==
  Returned("deduplicate_responses") =>
    /\ ~has_duplicate_responses(helper.res)
    /\ deduplicate_responses(helper.res) = helper.res
    /\ \A i, j \in 1..Len(helper.res) :
         ResponseKey(helper.res[i]) = ResponseKey(helper.res[j]) => i = j

\* C38 witness: the list given had a repeated signature, and two records
\* are returned
C38_Witness ==
  /\ Returned("deduplicate_responses")
  /\ has_duplicate_responses(helper.arg)
  /\ Len(helper.res) = 2
  /\ Len(helper.arg) = MaxResponses

\* C39: a column labelled "All Unique Values" lists exactly its distinct
\* non-null values, as many as the distinct count, whatever became of the
\* sample query once the count query had answered.
C39_AllUniqueIsComplete ==
  ( /\ Returned("smart_sampler")
    /\ helper.arg.count = "rows"
    /\ helper.res.label = "All Unique Values" ) =>
    /\ Len(helper.res.sample_values) = helper.res.unique_count
    /\ helper.res.sample_values = [i \in 1..helper.arg.col.distinct |-> i]

\* C40: get_agent_manager makes at most one manager for the process, and
\* every call returns that same manager, also when the first calls run at
\* the same time.
C40_OneManager ==
  /\ Cardinality({r \in Requests : request[r].new # NoManager}) <= 1
  /\ \A r, s \in Requests :
       At(r, "done") /\ At(s, "done") => request[r].got = request[s].got

(***************************************************************************)
(* The schema builder called on its own                                    *)
(***************************************************************************)

\* the same call at a store where no sampling query fails
WithoutFailure ==
  build_m_schema_string(helper.arg.tables, helper.arg.columns,
                        [helper.arg.env EXCEPT !.failing = NoFailure])

\* the table parts of a schema text
TableParts(m_schema) == {i \in 1..Len(m_schema) : m_schema[i].part = "table"}

\* the column the failing queries are about is the j-th of block
IsFailingColumn(block, j) ==
  helper.arg.env.failing.column =
    <<Last(Split(block.table)), block.columns[j].name>>

\* a build in which a sampling query of an emitted column fails
SamplingFailed ==
  /\ Returned("build_m_schema_string")
  /\ helper.arg.env.failing.column # <<>>
  /\ ~IsErrorString(WithoutFailure)
  /\ \E i \in TableParts(WithoutFailure) :
       \E j \in 1..Len(WithoutFailure[i].columns) :
         IsFailingColumn(WithoutFailure[i], j)

\* the build was not aborted and emits the parts of the build without the
\* failure, every column but the failing one with its own samples; the
\* failing one has the sample list Expected(its physical distinct count)
SameButFailing(Expected(_)) ==
  LET res == helper.res
      ref == WithoutFailure
  IN /\ ~IsErrorString(res)
     /\ Len(res) = Len(ref)
     /\ \A i \in 1..Len(res) :
          /\ res[i].part = ref[i].part
          /\ res[i].part # "table" => res[i] = ref[i]
          /\ res[i].part = "table" =>
               /\ res[i].table = ref[i].table
               /\ Len(res[i].columns) = Len(ref[i].columns)
               /\ \A j \in 1..Len(res[i].columns) :
                    /\ res[i].columns[j].name = ref[i].columns[j].name
                    /\ IF IsFailingColumn(ref[i], j)
                       THEN Expected(res[i].columns[j])
                       ELSE res[i].columns[j] = ref[i].columns[j]

\* C21 (as stated): a failing count query or sample query of one column
\* leaves that column with an empty sample list, the build is not aborted
\* and every other column and table is emitted with its own samples.
C21_EmptyOnAnyFailure ==
  SamplingFailed => SameButFailing(LAMBDA column : column.sample_values = <<>>)

\* C21 (amended): an exception of either query, or a failing sample query,
\* leaves the column with an empty sample list; an error row of the count
\* query alone is taken as a count of 0 and the column gets the at most
\* SAMPLE_LIMIT values of the limited sample query under "Sample Values".
\* In every case the build is not aborted and every other column and table
\* is emitted with its own samples.
C21_SamplingFailureContained ==
  SamplingFailed =>
    LET failing == helper.arg.env.failing IN
    SameButFailing(
      LAMBDA column :
        IF failing.count = "error" /\ failing.sample = "rows"
        THEN /\ column.label = "Sample Values"
             /\ column.sample_values # <<>>
             /\ Len(column.sample_values) <= SAMPLE_LIMIT
        ELSE column.sample_values = <<>>)

\* C21 witness: the count query of category raised, category is emitted
\* with no samples next to id, which has its own
C21_Witness ==
  /\ SamplingFailed
  /\ helper.arg.env.failing.count = "raise"
  /\ \E i \in TableParts(helper.res) :
       LET columns == helper.res[i].columns IN
       /\ \E j \in 1..Len(columns) :
            columns[j].name = "category" /\ columns[j].sample_values = <<>>
       /\ \E j \in 1..Len(columns) :
            columns[j].name = "id" /\ columns[j].sample_values # <<>>

\* C22: the builder returns a commented error string when no tables or no
\* columns are given and when reading the catalog fails.
C22_ErrorStringOnFailure ==
  ( /\ Returned("build_m_schema_string")
    /\ \/ helper.arg.tables = <<>>
       \/ helper.arg.columns = <<>>
       \/ ~helper.arg.env.configured
       \/ ~helper.arg.env.catalog_ok ) =>
    IsErrorString(helper.res)

\* the qualified table name in a normalized column name
TableOfColumn(c) == SubSeq(c, 1, Len(c) - 2)

\* C23: a table gets a block iff it is selected and in the physical schema,
\* and the block of a table holds a physical column iff a selected column
\* names that column of that very table.
C23_SelectedColumnsOnly ==
  (Returned("build_m_schema_string") /\ ~IsErrorString(helper.res)) =>
    LET res == helper.res
        normalized == NormalizeColumns(helper.arg.columns)
        tables_to_build ==
          {NormalizeTable(helper.arg.tables[i]) : i \in 1..Len(helper.arg.tables)}
        schema == get_complete_schema(helper.arg.env)
    IN /\ \A t \in tables_to_build :
            (t \in DOMAIN schema) <=> (\E i \in TableParts(res) : res[i].table = t)
       /\ \A i \in TableParts(res) :
            /\ res[i].table \in tables_to_build
            /\ \A k \in 1..Len(schema[res[i].table]) :
                 LET col_name == schema[res[i].table][k].name IN
                 (\E j \in 1..Len(res[i].columns) : res[i].columns[j].name = col_name)
                 <=> (\E n \in 1..Len(normalized) :
                        /\ TableOfColumn(normalized[n]) = res[i].table
                        /\ Last(Split(normalized[n])) = <<col_name>>)

C33_ForeignKeys ==
  (Returned("build_m_schema_string") /\ ~IsErrorString(helper.res)) =>
    LET res == helper.res
        schema == get_complete_schema(helper.arg.env)
        tables_to_build ==
          {NormalizeTable(helper.arg.tables[i]) : i \in 1..Len(helper.arg.tables)}
        k == CHOOSE i \in 1..Len(res) : res[i].part = "fk_header"
        wanted ==
          UNION { { <<t, schema[t][n].name, schema[t][n].fk>> :
                      n \in {m \in 1..Len(schema[t]) : schema[t][m].fk # <<>>} } :
                  t \in tables_to_build \cap DOMAIN schema }
    IN /\ \A i \in TableParts(res) : i < k
       /\ \A i \in 1..Len(res) : res[i].part = "fk" <=> i > k
       /\ { <<res[i].from[1], res[i].from[2], res[i].to>> : i \in (k + 1)..Len(res) }
            = wanted
       /\ Len(res) - k = Cardinality(wanted)

\* C33 witness: of public.items only price is selected, and the text ends
\* with the foreign key of its column id
C33_Witness ==
  /\ Returned("build_m_schema_string")
  /\ helper.arg.columns = << Col(Fq(t_items), "price") >>
  /\ ~IsErrorString(helper.res)
  /\ Last(helper.res) =
       [part |-> "fk", from |-> <<Fq(t_items), "id">>, to |-> <<Fq(t_item), "id">>]

(***************************************************************************)
(* One call with fixed task outputs                                        *)
(***************************************************************************)

\* the candidates quoted by the validator prompts of a trace, in order
ValidatorPrompts(h) ==
  LET prompts == SelectSeq(h, LAMBDA m : /\ m.name = "UserProxy"
                                         /\ Head(m.content.toks) = "task_4_prompt")
  IN [i \in 1..Len(prompts) |-> Tail(prompts[i].content.toks)]

\* C26: while the validation loop runs, the validator has been called once
\* for each record made so far, on the candidates in the order of the
\* candidate list; when the loop is over it has been called once for each
\* candidate; and the loop is left early only by an exception of a call,
\* never because of what a record says.
C26_OneCallPerCandidate ==
  \A c \in Callers :
    LET candidate_queries == loc[c].candidate_queries
        prompts == ValidatorPrompts(loc[c].full_conversation_history)
    IN /\ pc[c] = "validation" =>
            /\ calls[c].validator = Len(loc[c].validated_results)
            /\ Len(prompts) = calls[c].validator
            /\ Len(prompts) <= Len(candidate_queries)
            /\ prompts = SubSeq(candidate_queries, 1, Len(prompts))
       /\ pc[c] = "selection" =>
            /\ calls[c].validator = Len(candidate_queries)
            /\ prompts = candidate_queries
       /\ (pc[c] = "unlock" /\ entered[c] # <<>> /\ Last(entered[c]) = "Validation") =>
            ret[c].final_answer.msg = "LLMError"

\* C26 witness: three different candidates, the first of them got a record
\* with an SQL error, and the loop went on to the end
C26_Witness ==
  \E c \in Callers :
    /\ pc[c] = "selection"
    /\ Len(loc[c].candidate_queries) = 3
    /\ loc[c].candidate_queries[1] # loc[c].candidate_queries[2]
    /\ LET h == loc[c].full_conversation_history
           first == CHOOSE i \in 1..Len(h) :
                      /\ h[i].name = "UserProxy"
                      /\ Head(h[i].content.toks) = "task_4_prompt"
                      /\ \A j \in 1..(i - 1) :
                           ~(/\ h[j].name = "UserProxy"
                             /\ Head(h[j].content.toks) = "task_4_prompt")
       IN h[first + 1].content =
            Text(<<"{", "final_query=SQL2", "result=null", "error=E1", "}">>)

\* the position of the schema note in a trace
SchemaNoteAt(h) ==
  CHOOSE k \in 1..Len(h) :
    h[k].name = "Orchestrator" /\ Head(h[k].content.toks) = "M-Schema constructed"

\* the tasks whose future has been read, in a set of tasks
CollectedOf(c) == {w \in Workers : fut[c][w].st = "collected"}

\* C28: a task whose reply is empty once fences and blanks are stripped
\* gives no candidate and no trace entry and the stage goes on: the
\* candidates are the queries of the tasks read so far that got one, none
\* of them is empty, the trace holds three entries per candidate after the
\* schema note, and the call is in validation once all tasks are read and
\* one of them got a query.
C28_EmptyDropped ==
  \A c \in Callers :
    LET candidate_queries == loc[c].candidate_queries
        h == loc[c].full_conversation_history
        got == {w \in CollectedOf(c) : helper.arg.outputs[w] = "sql"}
    IN /\ \A i \in 1..Len(candidate_queries) : candidate_queries[i] # <<>>
       /\ pc[c] \in {"generation", "validation"} =>
            /\ {candidate_queries[i] : i \in 1..Len(candidate_queries)}
                 = {<<SqlNames[w]>> : w \in got}
            /\ Len(candidate_queries) = Cardinality(got)
       /\ pc[c] = "generation" =>
            Len(h) = SchemaNoteAt(h) + 3 * Len(candidate_queries)
       /\ (pc[c] = "unlock" /\ AllCollected(c)
             /\ \E w \in Workers : helper.arg.outputs[w] = "sql") =>
            Last(entered[c]) # "Generation"

\* C28 witness: two tasks got an empty fence and three a query, all were
\* read and validation has started with three candidates
C28_Witness ==
  \E c \in Callers :
    /\ pc[c] = "validation"
    /\ Cardinality({w \in Workers : helper.arg.outputs[w] = "empty"}) = 2
    /\ Len(loc[c].candidate_queries) = 3
    /\ loc[c].validated_results = <<>>

\* the step is one of a generation task of caller c
WorkerStep(c) ==
  \E w \in Workers :
    /\ fut[c][w].st \in {"submitted", "configured"}
    /\ fut'[c][w].st \in {"configured", "done"}
    /\ fut'[c][w].st # fut[c][w].st

\* after the schema note the trace holds, for the i-th candidate, its note,
\* the generation prompt and the candidate itself, one after the other
CandidateTriples(c) ==
  LET h == loc[c].full_conversation_history
      candidate_queries == loc[c].candidate_queries
  IN candidate_queries # <<>> =>
       LET k == SchemaNoteAt(h) IN
       /\ Len(h) >= k + 3 * Len(candidate_queries)
       /\ \A i \in 1..Len(candidate_queries) :
            /\ h[k + 3 * i - 2] =
                 Msg("system", "Orchestrator", Text(<<"Generated candidate with temp">>))
            /\ h[k + 3 * i - 1] = Msg("user", "", Text(<<"generation_prompt">>))
            /\ h[k + 3 * i] = Msg("assistant", "SQLGenerator", Text(candidate_queries[i]))

\* C30: no step of a generation task changes the trace or the candidate
\* list, and the three entries of each candidate stand together in the
\* trace, in the order of the candidate list.
C30_OrchestratorWritesAlone ==
  /\ [](\A c \in Callers : CandidateTriples(c))
  /\ [][\A c \in Callers : WorkerStep(c) => loc'[c] = loc[c]]_vars

\* C30 witness: two candidates are in the list while one task is still to
\* call the generator and another has its reply ready
C30_Witness ==
  \E c \in Callers :
    /\ pc[c] = "generation"
    /\ Len(loc[c].candidate_queries) = 2
    /\ \E v, w \in Workers : fut[c][v].st = "configured" /\ fut[c][w].st = "done"

\* the tasks of the script that get a query
WithQuery == {w \in Workers : helper.arg.outputs[w] = "sql"}

\* C35: when the call of a task raises, the queries of the other tasks are
\* still taken into the candidate list as their futures are read, the call
\* goes on to validation with all of them, and it ends in the generation
\* stage only when every future was read and no task got a query.
C35_ExceptionContained ==
  \A c \in Callers :
    (\E r \in Workers : helper.arg.outputs[r] = "raise") =>
      LET candidates == { loc[c].candidate_queries[i] :
                            i \in 1..Len(loc[c].candidate_queries) }
      IN /\ pc[c] = "generation" =>
              \A w \in WithQuery :
                fut[c][w].st = "collected" => <<SqlNames[w]>> \in candidates
         /\ pc[c] = "validation" =>
              /\ AllCollected(c)
              /\ candidates = {<<SqlNames[w]>> : w \in WithQuery}
         /\ (pc[c] = "unlock" /\ entered[c] # <<>> /\ Last(entered[c]) = "Generation") =>
              /\ AllCollected(c)
              /\ WithQuery = {}
              /\ ret[c].final_answer.msg = "ValueError"

\* C35 witness: the call of one task raised, the other four gave a query
\* and validation has begun with four candidates
C35_Witness ==
  \E c \in Callers :
    /\ pc[c] = "validation"
    /\ \E r \in Workers : helper.arg.outputs[r] = "raise"
    /\ Len(loc[c].candidate_queries) = K - 1

\* how often a text occurs in a list
Occurrences(q, x) == Cardinality({i \in 1..Len(q) : q[i] = x})

\* C36: whatever the order in which the tasks end, the candidates that
\* enter validation are, each exactly once, the queries the script gives to
\* the tasks, and nothing else.
C36_SameCandidatesInAnyOrder ==
  \A c \in Callers :
    pc[c] = "validation" =>
      LET candidate_queries == loc[c].candidate_queries IN
      /\ \A w \in WithQuery : Occurrences(candidate_queries, <<SqlNames[w]>>) = 1
      /\ Len(candidate_queries) = Cardinality(WithQuery)

\* C36 witness: all five tasks got a query and the task submitted last is
\* the first of the candidates, the task submitted first the last
C36_Witness ==
  \E c \in Callers :
    /\ pc[c] = "validation"
    /\ Len(loc[c].candidate_queries) = K
    /\ loc[c].candidate_queries[1] = <<SqlNames[K]>>
    /\ loc[c].candidate_queries[K] = <<SqlNames[1]>>

\* C24: when the construction of the schema context starts, the table of
\* every selected column is one of the selected tables.
C24_ColumnsWithinTables ==
  \A c \in Callers :
    pc[c] = "context" =>
      LET normalized == NormalizeColumns(loc[c].selected_columns)
          tables == { NormalizeTable(loc[c].selected_tables[i]) :
                        i \in 1..Len(loc[c].selected_tables) }
      IN \A n \in 1..Len(normalized) : TableOfColumn(normalized[n]) \in tables

====
